---- MODULE Spec2Model ----
(***************************************************************************)
(* Interval (oneilsh/Interval): the music-theory engine (MusicMaker), the  *)
(* sequence player (SequencePlayer) and the sample loader (SoundManager,   *)
(* Instrument), as state machines.                                         *)
(*                                                                         *)
(*   Spec        the engine: setScale, setProgression, next, previous      *)
(*   SpecDetect  chord detection over every set of sounding notes          *)
(*   SpecPlayer  the sequence player, its timers, the sample loads and     *)
(*               the other writers of the sounding-note set                *)
(*   SpecTheory  the reads of the scale engine on every scale              *)
(*   SpecPitch   the note tables and the circle of fifths                  *)
(*   SpecParse   the compact notation of sequences                         *)
(*   SpecKeys    the keyboard, the sounding-note set and samples that fail *)
(*               to load                                                   *)
(*   SpecSolo    one play() that nothing interrupts, in every scale;       *)
(*               SpecSoloFair is the same when every callback runs         *)
(*   SpecEngine  every operation of the engine at once                     *)
(*   SpecTokens  every writer of the sounding-note set but the progression *)
(*   SpecHeldKey one key held while the scale changes                      *)
(*   SpecSession the sketch: progression playback, demo link, reset        *)
(*   SpecDemo    the demo of the URL, from setup() on                      *)
(*   SpecAnyPitch, SpecAnyScale: the lookups with arguments they lack      *)
(*                                                                         *)
(* JavaScript null is the string "null" for names and NullChord for a      *)
(* chord; a timer handle of null is 0.                                     *)
(***************************************************************************)
EXTENDS Integers, Sequences, FiniteSets, TLC

VARIABLES
    \* MusicMaker (src/p5js/js/MusicMaker.js:8-42)
    currentRoot,            \* this.currentRoot
    currentScaleType,       \* this.currentScaleType
    currentPattern,         \* this.currentPattern
    currentScaleNotes,      \* this.currentScaleNotes (the keys of the object)
    currentlyPlayingNotes,  \* this.currentlyPlayingNotes (the keys of the object)
    currentProgression,     \* this.currentProgression
    progressionStep,        \* this.progressionStep
    \* what the last engine call returned, and which call it was
    ret,
    lastCall,
    \* the run of consecutive next() calls: its length and the step it began at
    runLen,
    runStart,
    \* the step index before the last call, and the call before the last
    stepBefore,
    callBefore,
    \* chord detection: the map returned by the last detection
    chords,
    chordsDone,
    \* SequencePlayer (src/p5js/js/sketch.js:417-430)
    isPlaying,              \* this.isPlaying
    currentSequence,        \* this.currentSequence
    eventIndex,             \* this.eventIndex
    timeoutId,              \* this.timeoutId
    instrumentName,         \* this.instrument.name (the player's Instrument)
    \* the event loop: pending setTimeout callbacks and suspended play() calls
    timers,
    tasks,
    \* SoundManager and the sketch's loader
    smInstrumentName,       \* soundManager.instrumentName
    isLoading,              \* soundManager.isLoading
    loads,                  \* loadSounds() promises not yet settled
    sounds,                 \* soundManager.sounds: the instrument it was loaded
                            \* for, by which load, and the samples that loaded
    isLoadingInstrument,    \* sketch global
    isInitialized,          \* sketch global
    dropdownInstrument,     \* currentInstrument.name (sketch global)
    instrumentShared,       \* currentInstrument is the Instrument that the
                            \* player was constructed with
    \* the sketch's progression playback and URL demo
    isProgressionPlaying,   \* sketch global
    progressionInterval,    \* sketch global: the handle of setInterval
    urlDemo,                \* what SequencePlayer.fromURL found in the URL
    checkReady,             \* the polling interval of checkURLDemo is set
    \* observers of the player
    owners,                 \* who added each sounding note
    onLog,                  \* the last play(): its sequence, the event indices
                            \* turned on since, and whether stop() was called since
    lastStep,               \* what the last step of the player spec did
    plays                   \* play() calls so far

engineVars == <<currentRoot, currentScaleType, currentPattern, currentScaleNotes,
                currentProgression, progressionStep, ret, lastCall,
                runLen, runStart, stepBefore, callBefore>>
detectVars == <<chords, chordsDone>>
playerVars == <<isPlaying, currentSequence, eventIndex, timeoutId, instrumentName,
                timers, tasks>>
soundVars  == <<smInstrumentName, isLoading, loads, sounds,
                isLoadingInstrument, isInitialized, dropdownInstrument,
                instrumentShared>>
sessionVars == <<isProgressionPlaying, progressionInterval, urlDemo, checkReady>>
ghostVars  == <<owners, onLog, lastStep, plays>>
vars == <<engineVars, currentlyPlayingNotes, detectVars, playerVars, soundVars,
          sessionVars, ghostVars>>

-----------------------------------------------------------------------------
(* PitchSpace: the 12-entry tables                                         *)

NoteNames == {"A", "A#", "B", "C", "C#", "D", "D#", "E", "F", "F#", "G", "G#"}

notesToNumbers ==
    ("A" :> 0) @@ ("A#" :> 1) @@ ("B" :> 2) @@ ("C" :> 3) @@ ("C#" :> 4) @@
    ("D" :> 5) @@ ("D#" :> 6) @@ ("E" :> 7) @@ ("F" :> 8) @@ ("F#" :> 9) @@
    ("G" :> 10) @@ ("G#" :> 11)

\* A table that counts from C.
numbersToNotesFromC ==
    (0 :> "C") @@ (1 :> "C#") @@ (2 :> "D") @@ (3 :> "D#") @@ (4 :> "E") @@
    (5 :> "F") @@ (6 :> "F#") @@ (7 :> "G") @@ (8 :> "G#") @@ (9 :> "A") @@
    (10 :> "A#") @@ (11 :> "B")

numbersToNotes ==
    (0 :> "A") @@ (1 :> "A#") @@ (2 :> "B") @@ (3 :> "C") @@ (4 :> "C#") @@
    (5 :> "D") @@ (6 :> "D#") @@ (7 :> "E") @@ (8 :> "F") @@ (9 :> "F#") @@
    (10 :> "G") @@ (11 :> "G#")

getNoteNameFromNum(theNum) == numbersToNotes[theNum]

getNumFromNoteName(name) == notesToNumbers[name]

\* The circle read the other way: each note's fourth.
fifthsDownward ==
    ("E" :> "A") @@ ("B" :> "E") @@ ("F#" :> "B") @@ ("C#" :> "F#") @@
    ("G#" :> "C#") @@ ("D#" :> "G#") @@ ("A#" :> "D#") @@ ("F" :> "A#") @@
    ("C" :> "F") @@ ("G" :> "C") @@ ("D" :> "G") @@ ("A" :> "D")

\* this.fifths
fifths ==
    ("A" :> "E") @@ ("E" :> "B") @@ ("B" :> "F#") @@ ("F#" :> "C#") @@
    ("C#" :> "G#") @@ ("G#" :> "D#") @@ ("D#" :> "A#") @@ ("A#" :> "F") @@
    ("F" :> "C") @@ ("C" :> "G") @@ ("G" :> "D") @@ ("D" :> "A")

\* The loop of getFifthsFromCurrentRoot: for (i = from; i < 12; i++)
\*   result.push(this.fifths[lastAdded])
RECURSIVE fifthsLoop(_, _, _)
fifthsLoop(result, lastAdded, i) ==
    IF i >= 12 THEN result
    ELSE fifthsLoop(Append(result, fifths[lastAdded]), fifths[lastAdded], i + 1)

\* getFifthsFromCurrentRoot() with this.currentRoot = root
getFifthsFromCurrentRoot(root) == fifthsLoop(<<root>>, root, 1)

-----------------------------------------------------------------------------
(* ScaleCatalog                                                            *)

scaleTypesToPatterns ==
    ("Major"       :> <<0, 2, 4, 5, 7, 9, 11>>) @@
    ("Minor"       :> <<0, 2, 3, 5, 7, 8, 10>>) @@
    ("Minor Pent." :> <<0, 3, 5, 7, 10>>) @@
    ("Major Pent." :> <<0, 2, 4, 7, 9>>) @@
    ("Blues"       :> <<0, 3, 5, 6, 7, 10>>) @@
    ("Ionian"      :> <<0, 2, 4, 5, 7, 9, 11>>) @@
    ("Dorian"      :> <<0, 2, 3, 5, 7, 9, 10>>) @@
    ("Phrygian"    :> <<0, 1, 3, 5, 7, 8, 10>>) @@
    ("Lydian"      :> <<0, 2, 4, 6, 7, 9, 11>>) @@
    ("Mixolydian"  :> <<0, 2, 4, 5, 7, 9, 10>>) @@
    ("Aeolian"     :> <<0, 2, 3, 5, 7, 8, 10>>) @@
    ("Locrian"     :> <<0, 1, 3, 5, 6, 8, 10>>)

ScaleTypes == DOMAIN scaleTypesToPatterns

\* this.scaleTypesToPatterns[type]; undefined is the empty sequence, which no
\* scale of the catalog has.
patternLookup(type) ==
    IF type \in DOMAIN scaleTypesToPatterns THEN scaleTypesToPatterns[type] ELSE <<>>

-----------------------------------------------------------------------------
(* ChordCatalog and the progressions                                       *)

chordTypesToNoteLists ==
    (""     :> <<0, 4, 7>>) @@
    ("7"    :> <<0, 4, 7, 10>>) @@
    ("M7"   :> <<0, 4, 7, 11>>) @@
    ("m"    :> <<0, 3, 7>>) @@
    ("m7"   :> <<0, 3, 7, 10>>) @@
    ("f"    :> <<0, 7>>) @@
    ("dim"  :> <<0, 3, 6>>) @@
    ("ø7"   :> <<0, 3, 6, 10>>) @@
    ("dim7" :> <<0, 3, 6, 9>>) @@
    ("aug"  :> <<0, 4, 8>>)

\* Object.keys(this.chordTypesToNoteLists): insertion order.
chordTypeKeys == <<"", "7", "M7", "m", "m7", "f", "dim", "ø7", "dim7", "aug">>

I_  == [degree |-> 0, quality |-> "",  name |-> "I"]
IV_ == [degree |-> 5, quality |-> "",  name |-> "IV"]
V_  == [degree |-> 7, quality |-> "",  name |-> "V"]
vi_ == [degree |-> 9, quality |-> "m", name |-> "vi"]
ii_ == [degree |-> 2, quality |-> "m", name |-> "ii"]

chordProgressions ==
    ("I-IV-V-I"     :> <<I_, IV_, V_, I_>>) @@
    ("I-V-vi-IV"    :> <<I_, V_, vi_, IV_>>) @@
    ("ii-V-I"       :> <<ii_, V_, I_>>) @@
    ("I-vi-IV-V"    :> <<I_, vi_, IV_, V_>>) @@
    ("vi-IV-I-V"    :> <<vi_, IV_, I_, V_>>) @@
    ("I-IV-vi-V"    :> <<I_, IV_, vi_, V_>>) @@
    ("12 Bar Blues" :> <<I_, I_, I_, I_, IV_, IV_, I_, I_, V_, IV_, I_, V_>>)

getProgressionNames == DOMAIN chordProgressions

\* The values the progression dropdown and resetApp pass to setProgression
\* besides a progression name: 'None', the empty string and null.
IdleNames == {"None", "", "null"}

NullChord == [null |-> TRUE]

range(f) == { f[x] : x \in DOMAIN f }

\* A call that ended in a TypeError (a property read of undefined).
Threw == [threw |-> TRUE]

-----------------------------------------------------------------------------
(* Bounds of the model                                                     *)

\* next() may be called this many times in a row.
MaxRun == 13

-----------------------------------------------------------------------------
(* ScaleEngine                                                             *)

\* JavaScript's a % b for b > 0: the remainder has the sign of a.
jsRemainder(a, b) == IF a >= 0 THEN a % b ELSE 0 - ((0 - a) % b)

\* A lookup that reads the pattern without adding the root.
noteNameIgnoringRoot(root, pattern, theNum) ==
    LET patternIndex == jsRemainder(theNum - 1, Len(pattern))
    IN  IF patternIndex < 0 THEN "undefined"
        ELSE getNoteNameFromNum(pattern[patternIndex + 1] % 12)

\* getNoteNameFromNumberInCurrentScale with this.currentRoot = root and
\* this.currentPattern = pattern. A negative patternIndex reads undefined from
\* the array, and numbersToNotes[NaN] is undefined.
getNoteNameFromNumberInCurrentScale(root, pattern, theNum) ==
    LET rootNum      == getNumFromNoteName(root)
        patternIndex == jsRemainder(theNum - 1, Len(pattern))
    IN  IF patternIndex < 0 THEN "undefined"
        ELSE LET patternNum == pattern[patternIndex + 1]
                 noteNum    == (rootNum + patternNum) % 12
             IN  getNoteNameFromNum(noteNum)

\* The loop of setScale: for (i = from; i <= pattern.length; i++)
\*   currentScaleNotes[name(i)] = 1
RECURSIVE fillScaleNotes(_, _, _, _)
fillScaleNotes(acc, root, pattern, i) ==
    IF i > Len(pattern) THEN acc
    ELSE fillScaleNotes(
             acc \cup {getNoteNameFromNumberInCurrentScale(root, pattern, i)},
             root, pattern, i + 1)

\* A setScale that forgets "this.currentScaleNotes = {}".
scaleNotesKeepingOld(old, root, pattern) == fillScaleNotes(old, root, pattern, 1)

\* this.currentScaleNotes after setScale(root, type), old being its value before.
scaleNotesAfterSetScale(old, root, pattern) == fillScaleNotes({}, root, pattern, 1)

isNoteInCurrentScale(theNote) == theNote \in currentScaleNotes

\* getNoteNameFromNumRelativeToRoot(theNum) with this.currentRoot = root
getNoteNameFromNumRelativeToRoot(root, theNum) ==
    LET rootNum == getNumFromNoteName(root)
        playNum == (rootNum + theNum) % 12
    IN  getNoteNameFromNum(playNum)

\* A table of offsets counted upwards from the mode's root.
modeParentsUpward ==
    ("Ionian" :> 0) @@ ("Dorian" :> 2) @@ ("Phrygian" :> 4) @@ ("Lydian" :> 5) @@
    ("Mixolydian" :> 7) @@ ("Aeolian" :> 9) @@ ("Locrian" :> 11)

\* this.modeParents; a scale type without an entry reads undefined.
modeParents ==
    ("Ionian" :> 0) @@ ("Dorian" :> -2) @@ ("Phrygian" :> -4) @@ ("Lydian" :> -5) @@
    ("Mixolydian" :> -7) @@ ("Aeolian" :> -9) @@ ("Locrian" :> -11)

\* A getParentMajorKey without "+ 12": the remainder of a negative sum is
\* negative and the table has no such key.
parentWithoutPlus12(root, scaleType) ==
    IF scaleType \notin DOMAIN modeParents THEN "null"
    ELSE LET parentNum == jsRemainder(notesToNumbers[root] + modeParents[scaleType], 12)
         IN  IF parentNum < 0 THEN "undefined" ELSE numbersToNotes[parentNum]

\* getParentMajorKey(root, scaleType); null is "null".
getParentMajorKey(root, scaleType) ==
    IF scaleType \notin DOMAIN modeParents THEN "null"
    ELSE LET rootNum   == notesToNumbers[root]
             parentNum == (rootNum + modeParents[scaleType] + 12) % 12
         IN  numbersToNotes[parentNum]

\* The test of the first version of getCurrentRelative:
\* currentScaleType.startsWith('Major').
majorTypesByPrefix == {"Major", "Major Pent."}

\* const majorTypes = [...] of getCurrentRelative
majorTypes == {"Major", "Ionian", "Lydian", "Mixolydian", "Major Pent."}

\* getCurrentRelative() with this.currentRoot = root, this.currentScaleType = type
getCurrentRelative(root, type) ==
    IF type \in majorTypes
    THEN getNoteNameFromNum((getNumFromNoteName(root) - 3 + 12) % 12)
    ELSE getNoteNameFromNum((getNumFromNoteName(root) + 3) % 12)

\* degreeOf(note): the 1-based position of the note in the current scale, 0
\* standing for null.
degreeOf(root, pattern, note) ==
    LET found == { d \in 1..Len(pattern) :
                     numbersToNotes[(notesToNumbers[root] + pattern[d]) % 12] = note }
    IN  IF found = {} THEN 0 ELSE CHOOSE d \in found : \A e \in found : d <= e

-----------------------------------------------------------------------------
(* ProgressionEngine                                                       *)

\* getCurrentProgressionChord with the cursor (prog, step) and root given.
getCurrentProgressionChord(prog, step, root) ==
    IF prog = "null" THEN NullChord
    ELSE IF prog \notin DOMAIN chordProgressions THEN NullChord
    ELSE IF step + 1 \notin DOMAIN chordProgressions[prog] THEN Threw
    ELSE LET p            == chordProgressions[prog]
             st           == p[step + 1]
             rootNum      == notesToNumbers[root]
             chordRootNum == (rootNum + st.degree) % 12
             chordRoot    == numbersToNotes[chordRootNum]
         IN  [root        |-> chordRoot,
              quality     |-> st.quality,
              name        |-> st.name,
              step        |-> step + 1,
              total       |-> Len(p),
              displayName |-> chordRoot \o st.quality \o " (" \o st.name \o ")"]

\* A next() that stops at the last step instead of wrapping.
nextStepNoWrap(prog, step) ==
    IF step + 1 < Len(chordProgressions[prog]) THEN step + 1 ELSE step

\* A next() without "% prog.length".
nextStepPastEnd(prog, step) == step + 1

\* this.progressionStep after nextProgressionStep() in the Active state.
nextStepIndex(prog, step) == (step + 1) % Len(chordProgressions[prog])

\* A previous() that stops at the first step instead of wrapping.
prevStepNoWrap(prog, step) == IF step = 0 THEN 0 ELSE step - 1

\* this.progressionStep after prevProgressionStep() in the Active state.
prevStepIndex(prog, step) ==
    (step - 1 + Len(chordProgressions[prog])) % Len(chordProgressions[prog])

\* A setProgression that keeps the step of the progression it leaves.
stepKept(step) == step

\* this.progressionStep after setProgression(name).
stepAfterSetProgression(step) == 0

\* An if-chain that lost its 'm' branch.
intervalsAllMajor(quality) ==
    IF quality = "7" THEN <<0, 4, 7, 10>>
    ELSE IF quality = "dim" THEN <<0, 3, 6>>
    ELSE <<0, 4, 7>>

\* The if-chain of getCurrentProgressionNotes: anything but 'm', '7' and 'dim'
\* is played as a major triad.
intervalsOfQuality(quality) ==
    IF quality = "m" THEN <<0, 3, 7>>
    ELSE IF quality = "7" THEN <<0, 4, 7, 10>>
    ELSE IF quality = "dim" THEN <<0, 3, 6>>
    ELSE <<0, 4, 7>>

\* A getCurrentProgressionNotes without "if (!chord) return []": it reads
\* chord.quality of null.
notesWithoutNullCheck(chord) ==
    IF chord = NullChord \/ chord = Threw THEN Threw
    ELSE [notes |-> [i \in DOMAIN intervalsOfQuality(chord.quality) |->
             numbersToNotes[(notesToNumbers[chord.root]
                             + intervalsOfQuality(chord.quality)[i]) % 12]]]

\* getCurrentProgressionNotes, `chord` being what getCurrentProgressionChord
\* returned; the array returned is the field `notes`.
getCurrentProgressionNotes(chord) ==
    IF chord = NullChord THEN [notes |-> <<>>]
    ELSE IF chord = Threw THEN Threw
    ELSE [notes |-> [i \in DOMAIN intervalsOfQuality(chord.quality) |->
             numbersToNotes[(notesToNumbers[chord.root]
                             + intervalsOfQuality(chord.quality)[i]) % 12]]]

-----------------------------------------------------------------------------
(* SoundingNoteSet and ChordDetector                                       *)

\* An add that toggles the note, as a click on the wheel does.
toggleNote(playing, noteName) ==
    IF noteName \in playing THEN playing \ {noteName} ELSE playing \cup {noteName}

\* this.currentlyPlayingNotes[noteName] = 1
addPlayingNote(playing, noteName) == playing \cup {noteName}

\* if (this.currentlyPlayingNotes[noteName]) delete ...
releasePlayingNote(playing, noteName) ==
    IF noteName \in playing THEN playing \ {noteName} ELSE playing

isNotePlaying(name) == name \in currentlyPlayingNotes

\* Object.keys(currentNotes) as a sequence. The order of the keys decides only
\* the order in which retMap is filled; the keys are taken in pitch order.
RECURSIVE keysFrom(_, _)
keysFrom(notes, num) ==
    IF num > 11 THEN <<>>
    ELSE IF numbersToNotes[num] \in notes
         THEN <<numbersToNotes[num]>> \o keysFrom(notes, num + 1)
         ELSE keysFrom(notes, num + 1)

objectKeys(notes) == keysFrom(notes, 0)

\* A check that keeps only the answer for the last note of the pattern.
flagOverwritten(isChordType, present) == present

\* if (!currentNotes[absNoteNeeded]) isChordType = false
flagAfterNote(isChordType, present) == IF ~present THEN FALSE ELSE isChordType

\* The loop over potentialChordPattern: the notes pushed and the flag.
RECURSIVE patternLoop(_, _, _, _, _)
patternLoop(currentNotes, potentialRootNum, pattern, i, acc) ==
    IF i > Len(pattern) THEN acc
    ELSE LET absNoteNeededNum == (potentialRootNum + pattern[i]) % 12
             absNoteNeeded    == getNoteNameFromNum(absNoteNeededNum)
         IN  patternLoop(currentNotes, potentialRootNum, pattern, i + 1,
                 [notes |-> Append(acc.notes, absNoteNeeded),
                  isChordType |-> flagAfterNote(acc.isChordType,
                                                absNoteNeeded \in currentNotes)])

\* The loop over Object.keys(this.chordTypesToNoteLists) for one root.
RECURSIVE chordTypesLoop(_, _, _, _)
chordTypesLoop(retMap, currentNotes, potentialRoot, j) ==
    IF j > Len(chordTypeKeys) THEN retMap
    ELSE LET potentialChordType == chordTypeKeys[j]
             potentialChord     == potentialRoot \o potentialChordType
             r == patternLoop(currentNotes, getNumFromNoteName(potentialRoot),
                              chordTypesToNoteLists[potentialChordType], 1,
                              [notes |-> <<>>, isChordType |-> TRUE])
         IN  chordTypesLoop(
                 IF r.isChordType THEN (potentialChord :> r.notes) @@ retMap
                                  ELSE retMap,
                 currentNotes, potentialRoot, j + 1)

\* The loop over Object.keys(currentNotes).
RECURSIVE rootsLoop(_, _, _, _)
rootsLoop(retMap, currentNotes, roots, i) ==
    IF i > Len(roots) THEN retMap
    ELSE rootsLoop(chordTypesLoop(retMap, currentNotes, roots[i], 1),
                   currentNotes, roots, i + 1)

getCurrentlyPlayingChordsFromNotes(currentNotes) ==
    rootsLoop(<<>>, currentNotes, objectKeys(currentNotes), 1)

-----------------------------------------------------------------------------
(* The engine's operations                                                 *)

\* A call of the scale or the cursor that also silences every note.
silencingCall ==
    /\ currentlyPlayingNotes' = {}
    /\ UNCHANGED <<detectVars, playerVars, soundVars, sessionVars, ghostVars>>

playerIdle ==
    UNCHANGED <<currentlyPlayingNotes, detectVars, playerVars, soundVars, sessionVars,
                ghostVars>>

\* setScale(root, type). With a type the catalog lacks, currentPattern is
\* undefined and "this.currentPattern.length" throws after the root, the type
\* and the emptied currentScaleNotes have been assigned.
SetScale(root, type) ==
    /\ currentRoot' = root
    /\ currentScaleType' = type
    /\ currentPattern' = patternLookup(type)
    /\ currentScaleNotes' =
           scaleNotesAfterSetScale(currentScaleNotes, root, patternLookup(type))
    /\ ret' = IF type \in ScaleTypes THEN NullChord ELSE Threw
    /\ lastCall' = [op |-> "setScale", name |-> type]
    /\ runLen' = 0
    /\ runStart' = progressionStep
    /\ stepBefore' = progressionStep
    /\ callBefore' = lastCall.op
    /\ UNCHANGED <<currentProgression, progressionStep>>
    /\ playerIdle

SetProgression(name) ==
    /\ IF name = "None" \/ name = "" \/ name = "null"
       THEN /\ currentProgression' = "null"
            /\ progressionStep' = 0
            /\ ret' = NullChord
       ELSE /\ currentProgression' = name
            /\ progressionStep' = stepAfterSetProgression(progressionStep)
            /\ ret' = getCurrentProgressionChord(name, progressionStep', currentRoot)
    /\ lastCall' = [op |-> "setProgression", name |-> name]
    /\ runLen' = 0
    /\ runStart' = progressionStep'
    /\ stepBefore' = progressionStep
    /\ callBefore' = lastCall.op
    /\ UNCHANGED <<currentRoot, currentScaleType, currentPattern, currentScaleNotes>>
    /\ playerIdle

NextProgressionStep ==
    /\ runLen < MaxRun
    /\ IF currentProgression = "null"
       THEN /\ ret' = NullChord
            /\ UNCHANGED progressionStep
       ELSE /\ progressionStep' = nextStepIndex(currentProgression, progressionStep)
            /\ ret' = getCurrentProgressionChord(currentProgression, progressionStep',
                                                 currentRoot)
    /\ lastCall' = [op |-> "next", name |-> ""]
    /\ runLen' = runLen + 1
    /\ stepBefore' = progressionStep
    /\ callBefore' = lastCall.op
    /\ UNCHANGED <<currentRoot, currentScaleType, currentPattern, currentScaleNotes,
                   currentProgression, runStart>>
    /\ playerIdle

PrevProgressionStep ==
    /\ IF currentProgression = "null"
       THEN /\ ret' = NullChord
            /\ UNCHANGED progressionStep
       ELSE /\ progressionStep' = prevStepIndex(currentProgression, progressionStep)
            /\ ret' = getCurrentProgressionChord(currentProgression, progressionStep',
                                                 currentRoot)
    /\ lastCall' = [op |-> "previous", name |-> ""]
    /\ runLen' = 0
    /\ runStart' = progressionStep'
    /\ stepBefore' = progressionStep
    /\ callBefore' = lastCall.op
    /\ UNCHANGED <<currentRoot, currentScaleType, currentPattern, currentScaleNotes,
                   currentProgression>>
    /\ playerIdle

\* A caller reads getCurrentProgressionChord().
GetCurrentProgressionChord ==
    /\ ret' = getCurrentProgressionChord(currentProgression, progressionStep,
                                         currentRoot)
    /\ lastCall' = [op |-> "currentChord", name |-> ""]
    /\ runLen' = 0
    /\ runStart' = progressionStep
    /\ stepBefore' = progressionStep
    /\ callBefore' = lastCall.op
    /\ UNCHANGED <<currentRoot, currentScaleType, currentPattern, currentScaleNotes,
                   currentProgression, progressionStep>>
    /\ playerIdle

\* A caller reads getCurrentProgressionNotes().
GetCurrentProgressionNotes ==
    /\ ret' = getCurrentProgressionNotes(
                  getCurrentProgressionChord(currentProgression, progressionStep,
                                             currentRoot))
    /\ lastCall' = [op |-> "currentChordNotes", name |-> ""]
    /\ runLen' = 0
    /\ runStart' = progressionStep
    /\ stepBefore' = progressionStep
    /\ callBefore' = lastCall.op
    /\ UNCHANGED <<currentRoot, currentScaleType, currentPattern, currentScaleNotes,
                   currentProgression, progressionStep>>
    /\ playerIdle

\* A read of the scale engine: only the record of the call changes.
queryReturns(op, arg, value) ==
    /\ ret' = value
    /\ lastCall' = [op |-> op, name |-> "", arg |-> arg]
    /\ runLen' = 0
    /\ runStart' = progressionStep
    /\ stepBefore' = progressionStep
    /\ callBefore' = lastCall.op
    /\ UNCHANGED <<currentRoot, currentScaleType, currentPattern, currentScaleNotes,
                   currentProgression, progressionStep>>
    /\ playerIdle

\* intervalMaker.getNoteNameFromNumberInCurrentScale(theNum), as keyPressed
\* calls it for the keys q to \ (1 to 13) and a script may with any integer.
GetNoteNameFromNumberInCurrentScale(theNum) ==
    queryReturns("noteForDegree", theNum,
        [note |-> getNoteNameFromNumberInCurrentScale(currentRoot, currentPattern,
                                                      theNum)])

\* The tooltip asks for the degree of the note under the mouse.
DegreeOf(note) ==
    queryReturns("degreeOf", notesToNumbers[note],
        [degree |-> degreeOf(currentRoot, currentPattern, note)])

\* isNoteInCurrentScale(theNote), as the wheel asks for every note it draws.
IsNoteInCurrentScale(theNote) ==
    queryReturns("isInScale", notesToNumbers[theNote],
        [inScale |-> isNoteInCurrentScale(theNote)])

\* intervalMaker.getCurrentRelative()
GetCurrentRelative ==
    queryReturns("relativeKey", 0,
        [note |-> getCurrentRelative(currentRoot, currentScaleType)])

\* updateScaleInfo: getParentMajorKey(getCurrentRoot(), getCurrentScaleType())
GetParentMajorKey ==
    queryReturns("parentMajorOf", 0,
        [note |-> getParentMajorKey(currentRoot, currentScaleType)])

\* What a read of a key that an object or array does not have returns.
Undefined == [undefined |-> TRUE]

\* getNoteNameFromNum(theNum): "return this.numbersToNotes[theNum]"
GetNoteNameFromNum(theNum) ==
    queryReturns("indexToName", theNum,
        IF theNum \in DOMAIN numbersToNotes
        THEN [note |-> getNoteNameFromNum(theNum)] ELSE Undefined)

\* getNumFromNoteName(name): "return this.notesToNumbers[name]"
GetNumFromNoteName(name) ==
    queryReturns("nameToIndex", name,
        IF name \in DOMAIN notesToNumbers
        THEN [num |-> getNumFromNoteName(name)] ELSE Undefined)

\* getFifthsFromCurrentRoot(), as the wheel in fifths order asks for it.
GetFifthsFromCurrentRoot ==
    queryReturns("fifthsFrom", 0, [notes |-> getFifthsFromCurrentRoot(currentRoot)])

-----------------------------------------------------------------------------
(* The sounding-note set and the detector's call                           *)

engineIdle == UNCHANGED <<engineVars, playerVars, soundVars, sessionVars, ghostVars>>

AddPlayingNote(noteName) ==
    /\ currentlyPlayingNotes' = addPlayingNote(currentlyPlayingNotes, noteName)
    /\ chords' = <<>>
    /\ chordsDone' = FALSE
    /\ engineIdle

ReleasePlayingNote(noteName) ==
    /\ currentlyPlayingNotes' = releasePlayingNote(currentlyPlayingNotes, noteName)
    /\ chords' = <<>>
    /\ chordsDone' = FALSE
    /\ engineIdle

\* The visualizer's frame: detect the chords of the notes now sounding.
DetectChords ==
    /\ ~chordsDone
    /\ chords' = getCurrentlyPlayingChordsFromNotes(currentlyPlayingNotes)
    /\ chordsDone' = TRUE
    /\ UNCHANGED currentlyPlayingNotes
    /\ engineIdle

-----------------------------------------------------------------------------
(* SoundManager: loadSounds and playSound                                  *)

\* A sample promise that rejects when the file fails to load.
samplePromiseRejecting(ok) == IF ok THEN "resolved" ELSE "rejected"

\* The promise of one sample: loadSound's success callback calls res(sound),
\* its error callback calls res(null).
samplePromise(ok) == IF ok THEN "resolved" ELSE "resolved"

\* Promise.all(loadPromises) over this.noteNames, `failed` being the notes
\* whose file fails to load: rejected as soon as one promise is.
loadPromises(failed) ==
    IF \A note \in NoteNames : samplePromise(note \notin failed) = "resolved"
    THEN "resolved" ELSE "rejected"

\* this.sounds once loadSounds(name) has asked for the 12 files: an object for
\* every note, none loaded yet.
soundsRequested(id, name) == [load |-> id, name |-> name, loaded |-> {}]

\* playSound(instrument + noteName): the sample is played when the map has it
\* and it is loaded; anything else is silence.
playSound(snd, instrument, noteName) ==
    IF snd.name = instrument /\ noteName \in snd.loaded THEN "played" ELSE "silent"

-----------------------------------------------------------------------------
(* Strings: split, trim and parseInt                                       *)

whitespace == {" "}

digitChars == <<"0", "1", "2", "3", "4", "5", "6", "7", "8", "9">>

digitValue ==
    [c \in range(digitChars) |-> CHOOSE n \in 0..9 : digitChars[n + 1] = c]

RECURSIVE trimStart(_)
trimStart(s) ==
    IF s # "" /\ Head(s) \in whitespace THEN trimStart(Tail(s)) ELSE s

RECURSIVE trimEnd(_)
trimEnd(s) ==
    IF s # "" /\ SubSeq(s, Len(s), Len(s)) \in whitespace
    THEN trimEnd(SubSeq(s, 1, Len(s) - 1))
    ELSE s

\* s.trim()
trim(s) == trimEnd(trimStart(s))

RECURSIVE splitLoop(_, _, _, _)
splitLoop(s, sep, piece, pieces) ==
    IF s = "" THEN Append(pieces, piece)
    ELSE IF Head(s) = sep THEN splitLoop(Tail(s), sep, "", Append(pieces, piece))
    ELSE splitLoop(Tail(s), sep, piece \o Head(s), pieces)

\* s.split(sep) for a one-character separator: ''.split(sep) is [''].
split(s, sep) == splitLoop(s, sep, "", <<>>)

\* The digits s begins with, as a number; nan when it begins with none.
RECURSIVE parseDigits(_, _, _)
parseDigits(s, n, seen) ==
    IF s # "" /\ Head(s) \in DOMAIN digitValue
    THEN parseDigits(Tail(s), n * 10 + digitValue[Head(s)], TRUE)
    ELSE [nan |-> ~seen, n |-> n]

\* parseInt(s): leading blanks, an optional sign, then the longest run of
\* digits; what follows the digits is ignored. NaN is nan |-> TRUE.
parseInt(s) ==
    LET t      == trimStart(s)
        signed == t # "" /\ Head(t) \in {"+", "-"}
        p      == parseDigits(IF signed THEN Tail(t) ELSE t, 0, FALSE)
    IN  IF signed /\ Head(t) = "-" THEN [nan |-> p.nan, n |-> 0 - p.n] ELSE p

\* /^\d+$/.test(s)
allDigits(s) ==
    s # "" /\ \A i \in 1..Len(s) : SubSeq(s, i, i) \in DOMAIN digitValue

\* /^[A-G]#?$/.test(s)
isNoteLetter(s) ==
    /\ Len(s) \in {1, 2}
    /\ Head(s) \in {"A", "B", "C", "D", "E", "F", "G"}
    /\ Len(s) = 2 => SubSeq(s, 2, 2) = "#"

\* /^s\d+$/.test(s)
isSemitoneToken(s) == s # "" /\ Head(s) = "s" /\ allDigits(Tail(s))

-----------------------------------------------------------------------------
(* SequencePlayer.fromCompact                                              *)

\* array[i - 1] of an array of strings; undefined, falsy as '' is, is "".
itemAt(array, i) == IF i \in DOMAIN array THEN array[i] ELSE ""

\* The keys of the config object, in the order of their items.
configKeys == <<"temperament", "root", "scale", "fifths", "chromaticColors">>

\* The config part. "if (configItems[i]) config.key = configItems[i]" for the
\* temperament, the root and the scale; "if (configItems[i] !== undefined)
\* config.key = configItems[i] === 'true'" for fifths and chromaticColors.
configOf(configPart) ==
    LET pieces      == split(configPart, ",")
        configItems == [i \in DOMAIN pieces |-> trim(pieces[i])]
        assigned    == {i \in DOMAIN configKeys :
                           IF i <= 3 THEN itemAt(configItems, i) # ""
                                     ELSE i \in DOMAIN configItems}
    IN  IF configPart = "" THEN <<>>
        ELSE [key \in {configKeys[i] : i \in assigned} |->
                 CASE key = "temperament"     -> configItems[1]
                   [] key = "root"            -> configItems[2]
                   [] key = "scale"           -> configItems[3]
                   [] key = "fifths"          -> configItems[4] = "true"
                   [] key = "chromaticColors" -> configItems[5] = "true"]

\* A timing that is read once per event but kept for the first event only.
timingOfFirstOnly(parts, i) ==
    IF i > 1 THEN [duration |-> 1500, given |-> FALSE, sustain |-> 0]
    ELSE IF Len(parts) >= 3 /\ trim(parts[3]) # ""
    THEN LET timingParts == split(trim(parts[3]), ",")
             d == parseInt(timingParts[1])
             u == parseInt(itemAt(timingParts, 2))
         IN  [duration |-> IF d.nan \/ d.n = 0 THEN 1500 ELSE d.n,
              given    |-> itemAt(timingParts, 2) # "",
              sustain  |-> IF u.nan THEN 0 ELSE u.n]
    ELSE [duration |-> 1500, given |-> FALSE, sustain |-> 0]

\* The duration and the sustain of event i: parts[2] is read again for every
\* event. "parseInt(...) || 1500"; a sustain is given when timingParts[1] is
\* not empty. A sustain of NaN is kept as 0: both are falsy, and the player
\* reads event.sustain through "||" only.
timingOf(parts, i) ==
    IF Len(parts) >= 3 /\ trim(parts[3]) # ""
    THEN LET timingParts == split(trim(parts[3]), ",")
             d == parseInt(timingParts[1])
             u == parseInt(itemAt(timingParts, 2))
         IN  [duration |-> IF d.nan \/ d.n = 0 THEN 1500 ELSE d.n,
              given    |-> itemAt(timingParts, 2) # "",
              sustain  |-> IF u.nan THEN 0 ELSE u.n]
    ELSE [duration |-> 1500, given |-> FALSE, sustain |-> 0]

\* eventStr.split('+').map(n => n.trim()).filter(n => n)
notesOf(eventStr) ==
    LET pieces == split(eventStr, "+")
    IN  SelectSeq([i \in DOMAIN pieces |-> trim(pieces[i])], LAMBDA n : n # "")

\* The loop over eventStrings: an empty item is skipped.
RECURSIVE eventsLoop(_, _, _, _)
eventsLoop(parts, eventStrings, i, events) ==
    IF i > Len(eventStrings) THEN events
    ELSE LET eventStr == trim(eventStrings[i])
             timing   == timingOf(parts, i)
             event    == IF timing.given
                         THEN [notes |-> notesOf(eventStr), duration |-> timing.duration,
                               sustain |-> timing.sustain]
                         ELSE [notes |-> notesOf(eventStr), duration |-> timing.duration]
         IN  eventsLoop(parts, eventStrings, i + 1,
                        IF eventStr = "" THEN events ELSE Append(events, event))

\* SequencePlayer.fromCompact(str)
fromCompact(str) ==
    LET parts == split(str, "|")
    IN  [config |-> configOf(trim(parts[1])),
         events |-> IF Len(parts) >= 2 /\ trim(parts[2]) # ""
                    THEN eventsLoop(parts, split(trim(parts[2]), ";"), 1, <<>>)
                    ELSE <<>>]

\* The compact strings parsed: every config part with every events part,
\* without a timing part and with each timing part, and the four formats of
\* the doc comment.
ConfigTexts ==
    {"", "Pythagorean", "Pythagorean,G#,Major", "Well Tempered", ",D", ",,Minor",
     " Equal Tempered , C , Major ", "Pythagorean,G#,Major,true", "Pythagorean,,,,true"}

EventTexts ==
    {"", "C+E+G", "C+E+G;E+G+B", "D", "1+3+5", "s0+s4+s7;s12", "C;;E", " C + E ;",
     "G#+D#;A;B"}

TimingTexts == {"", "1000", "1000,800", "1000,0", "0", "2000, 500", "1500,"}

DocFormats ==
    {"Pythagorean|G#+D#|2000", "Well Tempered,C,Major|C+E+G|1500",
     "Equal Tempered|C+E+G|1000;E+G+B|1000", "Pythagorean,G#,Major|"}

CompactInputs ==
    { c \o "|" \o e : c \in ConfigTexts, e \in EventTexts }
    \cup { c \o "|" \o e \o "|" \o t :
             c \in ConfigTexts, e \in EventTexts, t \in TimingTexts }
    \cup DocFormats

\* SequencePlayer.fromCompact(str), as play() and fromURL call it.
FromCompact(str) == queryReturns("fromCompact", str, fromCompact(str))

-----------------------------------------------------------------------------
(* SequencePlayer: its inputs                                              *)

\* soundManager.availableInstruments, the entries of the instrument dropdown.
availableInstruments ==
    {"Equal Tempered", "Well Tempered", "Carlos Super Just", "Pythagorean"}

\* Pending timers and loads the model follows at once.
MaxPendingTimers == 4
MaxLoads == 2

\* play() calls in one run.
MaxPlays == 2

\* The compact strings handed to play(), by name.
compactTexts ==
    ("chords"     :> "Pythagorean,G#,Major|C+E+G;E+G+B|1000,800") @@
    ("tuning"     :> "Well Tempered|D|1000,800") @@
    ("configOnly" :> "Pythagorean,G#,Major|") @@
    ("rootOnly"   :> ",D|D+F#|1000") @@
    ("bare"       :> "|C+E") @@
    ("staccato"   :> "|C|1000,0") @@
    ("degrees"    :> "|1+3+5|1000,800") @@
    ("semitones"  :> "|s0+s4+s7;s12|1000,800") @@
    ("offTable"   :> "|E#+Bb|1000,800")

\* The sequence objects that fromCompact builds of them. A config key that
\* was not given is absent, and an event has "sustain" only when a sustain
\* was given.
Sequences ==
    ("chords" :>
        [config |-> [temperament |-> "Pythagorean", root |-> "G#", scale |-> "Major"],
         events |-> << [notes |-> <<"C", "E", "G">>, duration |-> 1000, sustain |-> 800],
                       [notes |-> <<"E", "G", "B">>, duration |-> 1000, sustain |-> 800] >>]) @@
    ("tuning" :>
        [config |-> [temperament |-> "Well Tempered"],
         events |-> << [notes |-> <<"D">>, duration |-> 1000, sustain |-> 800] >>]) @@
    ("configOnly" :>
        [config |-> [temperament |-> "Pythagorean", root |-> "G#", scale |-> "Major"],
         events |-> << >>]) @@
    ("rootOnly" :>
        [config |-> [root |-> "D"],
         events |-> << [notes |-> <<"D", "F#">>, duration |-> 1000] >>]) @@
    ("bare" :>
        [config |-> << >>,
         events |-> << [notes |-> <<"C", "E">>, duration |-> 1500] >>]) @@
    ("staccato" :>
        [config |-> << >>,
         events |-> << [notes |-> <<"C">>, duration |-> 1000, sustain |-> 0] >>]) @@
    ("degrees" :>
        [config |-> << >>,
         events |-> << [notes |-> <<"1", "3", "5">>, duration |-> 1000, sustain |-> 800] >>]) @@
    ("semitones" :>
        [config |-> << >>,
         events |-> << [notes |-> <<"s0", "s4", "s7">>, duration |-> 1000, sustain |-> 800],
                       [notes |-> <<"s12">>, duration |-> 1000, sustain |-> 800] >>]) @@
    ("offTable" :>
        [config |-> << >>,
         events |-> << [notes |-> <<"E#", "Bb">>, duration |-> 1000, sustain |-> 800] >>])

\* The sequences whose note tokens each have one of the three forms of
\* resolveNotes.
FormedSequences ==
    {name \in DOMAIN Sequences :
        \A i \in DOMAIN Sequences[name].events :
            \A j \in DOMAIN Sequences[name].events[i].notes :
                \/ isNoteLetter(Sequences[name].events[i].notes[j])
                \/ allDigits(Sequences[name].events[i].notes[j])
                \/ isSemitoneToken(Sequences[name].events[i].notes[j])}

\* The sequences played while other plays, stops and loads interleave.
PlayerSequences == {"chords", "tuning", "configOnly"}

\* "config.key" is truthy: the key is there and is not ''.
given(config, key) == key \in DOMAIN config /\ config[key] # ""

\* The notes the mouse toggles and the instruments the dropdown selects.
MouseNotes == {"C", "A"}
DropdownChoices == {"Pythagorean", "Equal Tempered"}

\* setTimeout delays in whole ticks of 500 ms.
ticksOf(ms) == ms \div 500

\* A timer or load handle not in use.
freshId(used) == CHOOSE i \in 1..(Cardinality(used) + 1) : i \notin used

\* event.duration || 1500
effectiveDuration(event) ==
    IF "duration" \in DOMAIN event /\ event.duration # 0 THEN event.duration ELSE 1500

\* event.sustain || duration * 0.8
effectiveSustain(event, duration) ==
    IF "sustain" \in DOMAIN event /\ event.sustain # 0 THEN event.sustain
    ELSE (duration * 8) \div 10

\* The callback of resolveNotes for one note of a parsed event (a string). A
\* letter name is the note itself; for digits the callback calls
\* this.musicMaker.getNoteForScaleDegree, which MusicMaker does not have, and
\* the call throws a TypeError; s and digits is the offset from the root;
\* anything else is returned as it is.
resolveNote(note, root) ==
    IF isNoteLetter(note) THEN [threw |-> FALSE, note |-> note]
    ELSE IF allDigits(note) THEN [threw |-> TRUE, note |-> "undefined"]
    ELSE IF isSemitoneToken(note)
    THEN [threw |-> FALSE,
          note |-> numbersToNotes[(notesToNumbers[root] + parseInt(Tail(note)).n) % 12]]
    ELSE [threw |-> FALSE, note |-> note]

\* resolveNotes(notes), the current root being `root`: notes.map(...), which
\* throws when one of its callbacks does.
resolveNotes(notes, root) ==
    LET each == [i \in DOMAIN notes |-> resolveNote(notes[i], root)]
    IN  [threw |-> \E i \in DOMAIN each : each[i].threw,
         notes |-> [i \in DOMAIN each |-> each[i].note]]

RECURSIVE addEach(_, _, _)
addEach(playing, noteList, i) ==
    IF i > Len(noteList) THEN playing
    ELSE addEach(addPlayingNote(playing, noteList[i]), noteList, i + 1)

RECURSIVE releaseEach(_, _, _)
releaseEach(playing, noteList, i) ==
    IF i > Len(noteList) THEN playing
    ELSE releaseEach(releasePlayingNote(playing, noteList[i]), noteList, i + 1)

\* Who still owns each note once the sounding set is `playing`.
ownersWithin(own, playing) == [n \in NoteNames |-> IF n \in playing THEN own[n] ELSE {}]

ownersAdding(own, added, who) ==
    [n \in NoteNames |-> IF n \in added THEN own[n] \cup {who} ELSE own[n]]

-----------------------------------------------------------------------------
(* SequencePlayer: stop() and playNextEvent() on the player's state        *)

playerState ==
    [isPlaying |-> isPlaying, currentSequence |-> currentSequence,
     eventIndex |-> eventIndex, timeoutId |-> timeoutId, timers |-> timers,
     notes |-> currentlyPlayingNotes, owners |-> owners, onLog |-> onLog,
     turnedOn |-> FALSE, threw |-> FALSE, resolved |-> <<>>]

\* stop(): clearTimeout(this.timeoutId), release every sounding note, reset.
\* Every callback that survives is marked as scheduled before a stop.
stop(P) ==
    LET kept     == IF P.timeoutId # 0
                    THEN {t \in P.timers : t.id # P.timeoutId}
                    ELSE P.timers
        released == releaseEach(P.notes, objectKeys(P.notes), 1)
    IN  [P EXCEPT !.isPlaying = FALSE,
                  !.timers = {[t EXCEPT !.stale = TRUE] : t \in kept},
                  !.timeoutId = 0,
                  !.notes = released,
                  !.owners = ownersWithin(P.owners, released),
                  !.currentSequence = "null",
                  !.eventIndex = 0]

\* playNextEvent() from "Play notes" on: the notes are added, the release is
\* scheduled after `sustain` and the next playNextEvent after `duration`.
turnOn(P, stale, notes, duration, sustain, offId, advId) ==
    [P EXCEPT !.notes = addEach(P.notes, notes, 1),
              !.owners = ownersAdding(P.owners, range(notes), "player"),
              !.timers = P.timers \cup
                  {[id |-> offId, kind |-> "off", notes |-> notes,
                    delay |-> sustain, left |-> ticksOf(sustain), stale |-> stale],
                   [id |-> advId, kind |-> "adv", notes |-> <<>>,
                    delay |-> duration, left |-> ticksOf(duration), stale |-> stale]},
              !.eventIndex = P.eventIndex + 1,
              !.timeoutId = advId,
              !.onLog = [P.onLog EXCEPT !.on = Append(P.onLog.on, P.eventIndex)],
              !.turnedOn = TRUE,
              !.resolved = notes]

\* playNextEvent() from "const notes = this.resolveNotes(event.notes)" on.
\* When resolveNotes throws, nothing after it runs.
playEvent(P, stale, resolved, duration, sustain) ==
    IF resolved.threw THEN [P EXCEPT !.threw = TRUE]
    ELSE turnOn(P, stale, resolved.notes, duration, sustain,
                freshId({t.id : t \in P.timers} \cup {P.timeoutId}),
                freshId({t.id : t \in P.timers} \cup {P.timeoutId}
                            \cup {freshId({t.id : t \in P.timers} \cup {P.timeoutId})}))

\* The event that playNextEvent finds at this.eventIndex.
eventOf(sequence, index) == Sequences[sequence].events[index + 1]

\* playNextEvent(), called on behalf of a task or timer that is `stale` when a
\* stop() or a later play() has run since it was created, the current root
\* being `root`.
playNextEvent(P, stale, root) ==
    IF ~P.isPlaying \/ P.currentSequence = "null" THEN P
    ELSE IF P.eventIndex >= Len(Sequences[P.currentSequence].events)
    THEN [P EXCEPT !.isPlaying = FALSE, !.currentSequence = "null"]
    ELSE playEvent(P, stale,
                   resolveNotes(eventOf(P.currentSequence, P.eventIndex).notes, root),
                   effectiveDuration(eventOf(P.currentSequence, P.eventIndex)),
                   effectiveSustain(eventOf(P.currentSequence, P.eventIndex),
                       effectiveDuration(eventOf(P.currentSequence, P.eventIndex))))

\* play() after "await this.applyConfig(sequence.config)", `sequence` being the
\* call's own argument.
playAfterConfig(P, sequence, stale, root) ==
    IF Len(Sequences[sequence].events) = 0
    THEN [P EXCEPT !.isPlaying = FALSE]
    ELSE playNextEvent(P, stale, root)

\* What a step that ran the player's code did: whether it turned an event on,
\* with which notes, and whether it threw.
stepRecord(op, stale, P) ==
    [op |-> op, stale |-> stale, on |-> P.turnedOn, threw |-> P.threw,
     notes |-> P.resolved]

commitPlayer(P) ==
    /\ isPlaying' = P.isPlaying
    /\ currentSequence' = P.currentSequence
    /\ eventIndex' = P.eventIndex
    /\ timeoutId' = P.timeoutId
    /\ timers' = P.timers
    /\ currentlyPlayingNotes' = P.notes
    /\ owners' = P.owners
    /\ onLog' = P.onLog

\* A player whose absent root is C.
rootOrC(config) == IF given(config, "root") THEN config.root ELSE "C"

\* "config.root || this.musicMaker.getCurrentRoot()"
rootOfConfig(config) == IF given(config, "root") THEN config.root ELSE currentRoot

\* "config.scale || this.musicMaker.getCurrentScaleType()"
scaleOfConfig(config) ==
    IF given(config, "scale") THEN config.scale ELSE currentScaleType

\* applyConfig after the temperament: setScale when the root or the scale of
\* the config differs from the current one.
ApplyRootAndScale(config) ==
    LET root  == rootOfConfig(config)
        scale == scaleOfConfig(config)
    IN  IF root # currentRoot \/ scale # currentScaleType
        THEN /\ currentRoot' = root
             /\ currentScaleType' = scale
             /\ currentPattern' = patternLookup(scale)
             /\ currentScaleNotes' =
                    scaleNotesAfterSetScale(currentScaleNotes, root,
                                            patternLookup(scale))
        ELSE UNCHANGED <<currentRoot, currentScaleType, currentPattern,
                         currentScaleNotes>>

\* The step is no call of the cursor and no detection.
cursorKept ==
    UNCHANGED <<currentProgression, progressionStep, ret, lastCall, runLen, runStart,
                stepBefore, callBefore, detectVars>>

\* Nor is it a step of the progression playback or of the URL demo.
cursorIdle == cursorKept /\ UNCHANGED sessionVars

staleTasks == {[t EXCEPT !.stale = TRUE] : t \in tasks}

-----------------------------------------------------------------------------
(* SequencePlayer, the loader and the mouse: the handlers                  *)

scaleVars == <<currentRoot, currentScaleType, currentPattern, currentScaleNotes>>

\* sequencePlayer.play(sequence), the player being in the state P0. When
\* applyConfig has to load samples the call is suspended on that load;
\* otherwise the rest of play() runs in the microtasks that follow, before any
\* other callback. setInstrument renames the player's Instrument, which is
\* currentInstrument as long as the dropdown has not made a new one.
play(P0, sequence) ==
    LET config   == Sequences[sequence].config
        P1       == stop(P0)
        P2       == [P1 EXCEPT !.currentSequence = sequence,
                               !.eventIndex = 0,
                               !.isPlaying = TRUE,
                               !.onLog = [seq |-> sequence, on |-> <<>>,
                                          stopped |-> FALSE]]
        changes  == given(config, "temperament")
                        /\ config.temperament # instrumentName
        mustLoad == changes /\ config.temperament # smInstrumentName
    IN  /\ plays < MaxPlays
        /\ plays' = plays + 1
        /\ Cardinality(P1.timers) + 2 <= MaxPendingTimers
        /\ mustLoad => Cardinality(loads) < MaxLoads
        /\ instrumentName' = IF changes THEN config.temperament ELSE instrumentName
        /\ IF mustLoad
           THEN LET id == freshId({l.id : l \in loads}) IN
                /\ smInstrumentName' = config.temperament
                /\ isLoading' = TRUE
                /\ loads' = loads \cup
                       {[id |-> id, name |-> config.temperament, by |-> "player"]}
                /\ sounds' = soundsRequested(id, config.temperament)
                /\ tasks' = staleTasks \cup
                       {[sequence |-> sequence, load |-> id, stale |-> FALSE]}
                /\ commitPlayer(P2)
                /\ lastStep' = stepRecord("play", FALSE, P2)
                /\ UNCHANGED scaleVars
           ELSE LET P3 == playAfterConfig(P2, sequence, FALSE, rootOfConfig(config)) IN
                /\ UNCHANGED <<smInstrumentName, isLoading, loads, sounds>>
                /\ tasks' = staleTasks
                /\ ApplyRootAndScale(config)
                /\ commitPlayer(P3)
                /\ lastStep' = stepRecord("play", FALSE, P3)
        /\ dropdownInstrument' = IF instrumentShared /\ changes
                                 THEN config.temperament ELSE dropdownInstrument
        /\ UNCHANGED <<isLoadingInstrument, isInitialized, instrumentShared>>

\* sequencePlayer.play(sequence) called while no progression plays.
Play(sequence) == play(playerState, sequence) /\ cursorIdle

\* sequencePlayer.stop()
Stop ==
    LET P1 == stop(playerState) IN
    /\ commitPlayer([P1 EXCEPT !.onLog.stopped = TRUE])
    /\ tasks' = staleTasks
    /\ lastStep' = [op |-> "stop", stale |-> FALSE, on |-> FALSE]
    /\ UNCHANGED <<instrumentName, soundVars, scaleVars>>
    /\ UNCHANGED plays
    /\ cursorIdle

\* Time passes while no callback is due.
Tick ==
    /\ timers # {}
    /\ \A t \in timers : t.left > 0
    /\ timers' = {[t EXCEPT !.left = t.left - 1] : t \in timers}
    /\ lastStep' = [op |-> "tick", stale |-> FALSE, on |-> FALSE]
    /\ UNCHANGED <<isPlaying, currentSequence, eventIndex, timeoutId, instrumentName,
                   tasks, currentlyPlayingNotes, owners, onLog, soundVars, scaleVars>>
    /\ UNCHANGED plays
    /\ cursorIdle

\* The callback of "setTimeout(() => { release each note }, sustain)".
NoteOffFires(t) ==
    /\ t \in timers /\ t.kind = "off" /\ t.left = 0
    /\ timers' = timers \ {t}
    /\ currentlyPlayingNotes' = releaseEach(currentlyPlayingNotes, t.notes, 1)
    /\ owners' = ownersWithin(owners, currentlyPlayingNotes')
    /\ lastStep' = [op |-> "noteOff", stale |-> t.stale, on |-> FALSE]
    /\ UNCHANGED <<isPlaying, currentSequence, eventIndex, timeoutId, instrumentName,
                   tasks, onLog, soundVars, scaleVars>>
    /\ UNCHANGED plays
    /\ cursorIdle

\* The callback of "this.timeoutId = setTimeout(() => this.playNextEvent(), duration)".
AdvanceFires(t) ==
    /\ t \in timers /\ t.kind = "adv" /\ t.left = 0
    /\ LET P1 == playNextEvent([playerState EXCEPT !.timers = timers \ {t}], t.stale,
                               currentRoot) IN
       /\ Cardinality(P1.timers) <= MaxPendingTimers
       /\ commitPlayer(P1)
       /\ lastStep' = stepRecord("advance", t.stale, P1)
    /\ UNCHANGED <<instrumentName, tasks, soundVars, scaleVars>>
    /\ UNCHANGED plays
    /\ cursorIdle

\* The 12 sample promises of a loadSounds() call have settled, the files of
\* `failed` with an error. Resolved: Promise.all(...).then sets isLoading and
\* calls onLoadComplete. Rejected: loadSounds rejects, and
\* loadSoundsForInstrument catches it.
loadSettles(l, failed) ==
    /\ l \in loads
    /\ loads' = loads \ {l}
    /\ sounds' = IF sounds.load = l.id
                 THEN [sounds EXCEPT !.loaded = NoteNames \ failed]
                 ELSE sounds
    /\ IF loadPromises(failed) = "resolved"
       THEN /\ isLoading' = FALSE
            /\ isInitialized' = TRUE
            /\ isLoadingInstrument' = FALSE
       ELSE /\ isLoadingInstrument' = IF l.by = "player" THEN isLoadingInstrument
                                                        ELSE FALSE
            /\ UNCHANGED <<isLoading, isInitialized>>

\* The load that setup() started completes.
SetupLoadCompletes(l, failed) ==
    /\ l.by = "setup"
    /\ loadSettles(l, failed)
    /\ lastStep' = [op |-> "loaded", stale |-> FALSE, on |-> FALSE]
    /\ UNCHANGED <<smInstrumentName, dropdownInstrument, instrumentShared, playerVars,
                   currentlyPlayingNotes, owners, onLog, scaleVars>>
    /\ UNCHANGED plays
    /\ cursorIdle

\* A load started by the dropdown completes: onInstrumentChange goes on with
\* "currentInstrument = new Instrument(instrumentName, ...)".
DropdownLoadCompletes(l, failed) ==
    /\ l.by = "dropdown"
    /\ loadSettles(l, failed)
    /\ dropdownInstrument' = l.name
    /\ instrumentShared' = FALSE
    /\ smInstrumentName' = l.name
    /\ lastStep' = [op |-> "loaded", stale |-> FALSE, on |-> FALSE]
    /\ UNCHANGED <<playerVars, currentlyPlayingNotes, owners, onLog, scaleVars>>
    /\ UNCHANGED plays
    /\ cursorIdle

\* A load started by applyConfig completes: the suspended play() goes on with
\* the rest of applyConfig and then its events; a rejected load ends it.
PlayerLoadCompletes(l, failed) ==
    /\ l.by = "player"
    /\ loadSettles(l, failed)
    /\ \E task \in tasks :
        /\ task.load = l.id
        /\ LET resolved == loadPromises(failed) = "resolved"
               config   == Sequences[task.sequence].config
               P1 == IF resolved
                     THEN playAfterConfig(playerState, task.sequence, task.stale,
                                          rootOfConfig(config))
                     ELSE playerState
           IN
           /\ Cardinality(P1.timers) <= MaxPendingTimers
           /\ tasks' = tasks \ {task}
           /\ IF resolved THEN ApplyRootAndScale(Sequences[task.sequence].config)
                          ELSE UNCHANGED scaleVars
           /\ commitPlayer(P1)
           /\ lastStep' = stepRecord("resumed", task.stale, P1)
    /\ UNCHANGED <<smInstrumentName, dropdownInstrument, instrumentShared,
                   instrumentName>>
    /\ UNCHANGED plays
    /\ cursorIdle

\* The instrument dropdown changes to `name`.
OnInstrumentChange(name) ==
    /\ name # dropdownInstrument
    /\ IF isLoadingInstrument
       THEN \* loadSoundsForInstrument returns at once
            /\ dropdownInstrument' = name
            /\ instrumentShared' = FALSE
            /\ smInstrumentName' = name
            /\ UNCHANGED <<isLoading, loads, sounds, isLoadingInstrument>>
       ELSE /\ Cardinality(loads) < MaxLoads
            /\ isLoadingInstrument' = TRUE
            /\ smInstrumentName' = name
            /\ isLoading' = TRUE
            /\ loads' = loads \cup
                   {[id |-> freshId({l.id : l \in loads}), name |-> name,
                     by |-> "dropdown"]}
            /\ sounds' = soundsRequested(freshId({l.id : l \in loads}), name)
            /\ UNCHANGED <<dropdownInstrument, instrumentShared>>
    /\ lastStep' = [op |-> "instrument", stale |-> FALSE, on |-> FALSE]
    /\ UNCHANGED <<isInitialized, playerVars, currentlyPlayingNotes, owners, onLog,
                   scaleVars>>
    /\ UNCHANGED plays
    /\ cursorIdle

\* A click on a note of the wheel toggles it.
MousePressed(notePoked) ==
    /\ isInitialized
    /\ IF isNotePlaying(notePoked)
       THEN /\ currentlyPlayingNotes' =
                   releasePlayingNote(currentlyPlayingNotes, notePoked)
            /\ owners' = ownersWithin(owners, currentlyPlayingNotes')
       ELSE /\ currentlyPlayingNotes' = addPlayingNote(currentlyPlayingNotes, notePoked)
            /\ owners' = ownersAdding(owners, {notePoked}, "mouse")
    /\ lastStep' = [op |-> "mouse", stale |-> FALSE, on |-> FALSE]
    /\ UNCHANGED <<playerVars, soundVars, onLog, scaleVars>>
    /\ UNCHANGED plays
    /\ cursorIdle

\* The chromatic keys pressed, as the offsets they stand for: 1, 5 and 8.
PressedKeys == {0, 4, 7}

\* A key repeats at most this many times while it is held.
MaxKeyRepeats == 3

\* The files that may fail to load.
MissingSamples == {"C", "F#"}

\* How many times in a row the note has been turned on by the keyboard.
streakOf(note) ==
    IF lastStep.op = "keyPressed" /\ lastStep.note = note THEN lastStep.streak ELSE 0

\* keyPressed with one of the chromatic keys: play the sample unless the note
\* already sounds, then add the note.
KeyPressed(theNum) ==
    LET note  == getNoteNameFromNumRelativeToRoot(currentRoot, theNum)
        audio == IF ~isNotePlaying(note)
                 THEN playSound(sounds, dropdownInstrument, note)
                 ELSE "none"
    IN  /\ isInitialized
        /\ streakOf(note) < MaxKeyRepeats
        /\ currentlyPlayingNotes' = addPlayingNote(currentlyPlayingNotes, note)
        /\ owners' = ownersAdding(owners, {note}, "key")
        /\ lastStep' = [op |-> "keyPressed", stale |-> FALSE, on |-> FALSE,
                        note |-> note, audio |-> audio,
                        streak |-> streakOf(note) + 1]
        /\ UNCHANGED <<playerVars, soundVars, onLog, scaleVars>>
        /\ UNCHANGED plays
        /\ cursorIdle

\* keyReleased with one of the chromatic keys.
KeyReleased(theNum) ==
    LET note == getNoteNameFromNumRelativeToRoot(currentRoot, theNum)
    IN  /\ isInitialized
        /\ currentlyPlayingNotes' = releasePlayingNote(currentlyPlayingNotes, note)
        /\ owners' = ownersWithin(owners, currentlyPlayingNotes')
        /\ lastStep' = [op |-> "keyReleased", stale |-> FALSE, on |-> FALSE,
                        note |-> note, audio |-> "none",
                        streak |-> streakOf(note)]
        /\ UNCHANGED <<playerVars, soundVars, onLog, scaleVars>>
        /\ UNCHANGED plays
        /\ cursorIdle

-----------------------------------------------------------------------------
(* The sketch: progression playback, the demo links, reset and the URL     *)

\* The values of the speed dropdown, in ms.
Speeds == {500, 1000}

\* What the progression handlers read and write besides the cursor.
sessionState ==
    [notes |-> currentlyPlayingNotes, owners |-> owners, timers |-> timers,
     isProgressionPlaying |-> isProgressionPlaying,
     progressionInterval |-> progressionInterval]

\* The handles in use when the session is G.
handlesOf(G) == {t.id : t \in G.timers} \cup {timeoutId, G.progressionInterval}

\* A stopProgressionPlayback that forgets the handle without clearing it.
stopKeepingInterval(G) ==
    [G EXCEPT !.isProgressionPlaying = FALSE,
              !.progressionInterval = 0,
              !.notes = releaseEach(G.notes, objectKeys(G.notes), 1),
              !.owners = ownersWithin(G.owners, {})]

\* stopProgressionPlayback(): clear the interval if there is one, release every
\* sounding note.
stopProgressionPlayback(G) ==
    [G EXCEPT !.isProgressionPlaying = FALSE,
              !.timers = IF G.progressionInterval # 0
                         THEN {t \in G.timers : t.id # G.progressionInterval}
                         ELSE G.timers,
              !.progressionInterval = 0,
              !.notes = releaseEach(G.notes, objectKeys(G.notes), 1),
              !.owners = ownersWithin(G.owners, {})]

\* updateProgressionDisplay(chord): without a chord the playback is stopped.
updateProgressionDisplay(G, chord) ==
    IF chord = NullChord THEN stopProgressionPlayback(G) ELSE G

\* A playProgressionChord that adds the chord to what already sounds.
playChordOverSounding(G, notes, speed) ==
    [G EXCEPT !.notes = addEach(G.notes, notes, 1),
              !.owners = ownersAdding(G.owners, range(notes), "progression"),
              !.timers = G.timers \cup
                  {[id |-> freshId(handlesOf(G)), kind |-> "release", notes |-> notes,
                    delay |-> (speed * 7) \div 10,
                    left |-> ticksOf((speed * 7) \div 10), stale |-> FALSE]}]

\* playProgressionChord(), `notes` being getCurrentProgressionNotes() and
\* `speed` the value of the speed dropdown: every sounding note is released,
\* the notes of the chord are added, and their release is scheduled after
\* speed * 0.7.
playProgressionChord(G, notes, speed) ==
    [G EXCEPT !.notes = addEach(releaseEach(G.notes, objectKeys(G.notes), 1), notes, 1),
              !.owners = ownersAdding(ownersWithin(G.owners, {}), range(notes),
                                      "progression"),
              !.timers = G.timers \cup
                  {[id |-> freshId(handlesOf(G)), kind |-> "release", notes |-> notes,
                    delay |-> (speed * 7) \div 10,
                    left |-> ticksOf((speed * 7) \div 10), stale |-> FALSE]}]

\* "progressionInterval = setInterval(..., speed)"
withInterval(G, speed, id) ==
    [G EXCEPT !.progressionInterval = id,
              !.timers = G.timers \cup
                  {[id |-> id, kind |-> "prog", notes |-> <<>>, delay |-> speed,
                    left |-> ticksOf(speed), stale |-> FALSE]}]

\* startProgressionPlayback() with the cursor at `chord`.
startProgressionPlayback(G, chord, speed) ==
    IF currentProgression = "null" THEN G
    ELSE withInterval(
             updateProgressionDisplay(
                 playProgressionChord([G EXCEPT !.isProgressionPlaying = TRUE],
                                      getCurrentProgressionNotes(chord).notes, speed),
                 chord),
             speed,
             freshId(handlesOf(G) \cup {freshId(handlesOf(G))}))

commitSession(G) ==
    /\ currentlyPlayingNotes' = G.notes
    /\ owners' = G.owners
    /\ timers' = G.timers
    /\ isProgressionPlaying' = G.isProgressionPlaying
    /\ progressionInterval' = G.progressionInterval

\* What a handler of the sketch leaves alone: the player's own fields, the
\* loader, the URL demo, and the records of the engine's calls.
sketchIdle ==
    /\ UNCHANGED <<isPlaying, currentSequence, eventIndex, timeoutId, instrumentName,
                   tasks, soundVars, urlDemo, checkReady, onLog, plays>>
    /\ UNCHANGED <<ret, lastCall, runLen, runStart, stepBefore, callBefore, detectVars>>

sketchStep(op) == lastStep' = [op |-> op, stale |-> FALSE, on |-> FALSE]

\* The progression dropdown changes to `name`.
SelectProgression(name) ==
    /\ currentProgression' = IF name = "None" \/ name = "" THEN "null" ELSE name
    /\ progressionStep' = 0
    /\ commitSession(
           updateProgressionDisplay(
               stopProgressionPlayback(sessionState),
               getCurrentProgressionChord(currentProgression', 0, currentRoot)))
    /\ sketchStep("selectProgression")
    /\ UNCHANGED scaleVars
    /\ sketchIdle

\* No release that playProgressionChord scheduled is pending.
chordReleased == \A t \in timers : t.kind # "release"

\* A click on the play button, the speed dropdown being at `speed`. The
\* playback is started again only once the chord of the start before has
\* been released.
PlayButton(speed) ==
    /\ Cardinality(timers) + 2 <= MaxPendingTimers
    /\ isProgressionPlaying \/ chordReleased
    /\ commitSession(
           IF isProgressionPlaying THEN stopProgressionPlayback(sessionState)
           ELSE startProgressionPlayback(sessionState,
                    getCurrentProgressionChord(currentProgression, progressionStep,
                                               currentRoot),
                    speed))
    /\ sketchStep(IF isProgressionPlaying \/ currentProgression = "null"
                  THEN "playButton" ELSE "progressionStart")
    /\ UNCHANGED <<scaleVars, currentProgression, progressionStep>>
    /\ sketchIdle

\* The speed dropdown changes to `speed` while the progression plays.
SpeedChange(speed) ==
    /\ isProgressionPlaying
    /\ \A t \in timers : t.id = progressionInterval => t.delay # speed
    /\ chordReleased
    /\ Cardinality(timers) + 1 <= MaxPendingTimers
    /\ commitSession(
           startProgressionPlayback(stopProgressionPlayback(sessionState),
               getCurrentProgressionChord(currentProgression, progressionStep,
                                          currentRoot),
               speed))
    /\ sketchStep("progressionStart")
    /\ UNCHANGED <<scaleVars, currentProgression, progressionStep>>
    /\ sketchIdle

\* The callback of the interval: nextProgressionStep(), updateProgressionDisplay,
\* playProgressionChord; the interval runs on unless the callback cleared it.
ProgressionTick(t) ==
    /\ t \in timers /\ t.kind = "prog" /\ t.left = 0
    /\ Cardinality(timers) + 1 <= MaxPendingTimers
    /\ progressionStep' = IF currentProgression = "null" THEN progressionStep
                          ELSE nextStepIndex(currentProgression, progressionStep)
    /\ LET chord == getCurrentProgressionChord(currentProgression, progressionStep',
                                               currentRoot)
           G1 == updateProgressionDisplay(
                     [sessionState EXCEPT
                         !.timers = (timers \ {t}) \cup
                                      {[t EXCEPT !.left = ticksOf(t.delay)]}],
                     chord)
       IN  commitSession(
               playProgressionChord(G1, getCurrentProgressionNotes(chord).notes,
                                    t.delay))
    /\ sketchStep("progressionTick")
    /\ UNCHANGED <<scaleVars, currentProgression>>
    /\ sketchIdle

\* The callback of "setTimeout(() => { release each note }, speed * 0.7)".
ChordReleaseFires(t) ==
    /\ t \in timers /\ t.kind = "release" /\ t.left = 0
    /\ commitSession([sessionState EXCEPT
           !.timers = timers \ {t},
           !.notes = releaseEach(currentlyPlayingNotes, t.notes, 1),
           !.owners = ownersWithin(owners,
                          releaseEach(currentlyPlayingNotes, t.notes, 1))])
    /\ sketchStep("chordRelease")
    /\ UNCHANGED <<scaleVars, currentProgression, progressionStep>>
    /\ sketchIdle

\* The root or the scale dropdown changes.
OnScaleChange(root, type) ==
    /\ currentRoot' = root
    /\ currentScaleType' = type
    /\ currentPattern' = patternLookup(type)
    /\ currentScaleNotes' =
           scaleNotesAfterSetScale(currentScaleNotes, root, patternLookup(type))
    /\ commitSession(
           IF currentProgression # "null"
           THEN updateProgressionDisplay(sessionState,
                    getCurrentProgressionChord(currentProgression, progressionStep,
                                               root))
           ELSE sessionState)
    /\ sketchStep("scale")
    /\ UNCHANGED <<currentProgression, progressionStep>>
    /\ sketchIdle

\* resetApp(): release every note, stop the progression playback, setScale('C',
\* 'Major'), setProgression(null).
ResetApp ==
    /\ commitSession(stopProgressionPlayback(sessionState))
    /\ currentRoot' = "C"
    /\ currentScaleType' = "Major"
    /\ currentPattern' = patternLookup("Major")
    /\ currentScaleNotes' =
           scaleNotesAfterSetScale(currentScaleNotes, "C", patternLookup("Major"))
    /\ currentProgression' = "null"
    /\ progressionStep' = 0
    /\ sketchStep("reset")
    /\ sketchIdle

\* The player as a sketch handler finds it: the session being G.
playerIn(G) ==
    [playerState EXCEPT !.timers = G.timers, !.notes = G.notes, !.owners = G.owners]

\* A click on a demo link: stopProgressionPlayback(), then
\* sequencePlayer.play(sequenceStr).
DemoLinkClick(sequence) ==
    /\ play(playerIn(stopProgressionPlayback(sessionState)), sequence)
    /\ isProgressionPlaying' = FALSE
    /\ progressionInterval' = 0
    /\ UNCHANGED <<urlDemo, checkReady>>
    /\ cursorKept

\* A poll that does not wait for the samples.
pollAlwaysReady == TRUE

\* "if (isInitialized)" in the callback of checkURLDemo's interval.
pollFindsReady == isInitialized

\* The callback of checkURLDemo's interval finds isInitialized true: it clears
\* the interval and calls sequencePlayer.play(sequence). While isInitialized
\* is false the callback changes nothing.
CheckReadyFires ==
    /\ checkReady
    /\ pollFindsReady
    /\ checkReady' = FALSE
    /\ play(playerState, urlDemo)
    /\ UNCHANGED <<urlDemo, isProgressionPlaying, progressionInterval>>
    /\ cursorKept

\* "setTimeout(() => clearInterval(checkReady), 10000)"
CheckReadyGivesUp ==
    /\ checkReady
    /\ checkReady' = FALSE
    /\ sketchStep("giveUp")
    /\ UNCHANGED <<engineVars, currentlyPlayingNotes, detectVars, playerVars, soundVars,
                   urlDemo, isProgressionPlaying, progressionInterval, owners, onLog,
                   plays>>

-----------------------------------------------------------------------------
(* The state after construction                                            *)

\* new MusicMaker(): the constructor ends with setScale('C', 'Major').
InitEngine ==
    /\ currentRoot = "C"
    /\ currentScaleType = "Major"
    /\ currentPattern = scaleTypesToPatterns["Major"]
    /\ currentScaleNotes = scaleNotesAfterSetScale({}, "C", scaleTypesToPatterns["Major"])
    /\ currentProgression = "null"
    /\ progressionStep = 0
    /\ ret = NullChord
    /\ lastCall = [op |-> "init", name |-> ""]
    /\ runLen = 0
    /\ runStart = 0
    /\ stepBefore = 0
    /\ callBefore = "init"

InitDetect ==
    /\ chords = <<>>
    /\ chordsDone = FALSE

\* new SequencePlayer(...), new SoundManager(), new Instrument('Equal Tempered', ...)
InitPlayer ==
    /\ isPlaying = FALSE
    /\ currentSequence = "null"
    /\ eventIndex = 0
    /\ timeoutId = 0
    /\ instrumentName = "Equal Tempered"
    /\ timers = {}
    /\ tasks = {}

\* setup() ends with loadSoundsForInstrument('Equal Tempered'): the first load
\* is in progress.
InitSound ==
    /\ smInstrumentName = "Equal Tempered"
    /\ isLoading = TRUE
    /\ loads = {[id |-> 1, name |-> "Equal Tempered", by |-> "setup"]}
    /\ sounds = soundsRequested(1, "Equal Tempered")
    /\ isLoadingInstrument = TRUE
    /\ isInitialized = FALSE
    /\ dropdownInstrument = "Equal Tempered"
    /\ instrumentShared = TRUE

InitGhost ==
    /\ owners = [n \in NoteNames |-> {}]
    /\ onLog = [seq |-> "null", on |-> <<>>, stopped |-> FALSE]
    /\ lastStep = [op |-> "init", stale |-> FALSE, on |-> FALSE]
    /\ plays = 0

\* setup() when the URL may have a demo parameter: with one, checkURLDemo has
\* set its polling interval.
InitWithURL ==
    /\ InitEngine
    /\ currentlyPlayingNotes = {}
    /\ InitDetect
    /\ InitPlayer
    /\ InitSound
    /\ isProgressionPlaying = FALSE
    /\ progressionInterval = 0
    /\ urlDemo \in DOMAIN Sequences \cup {"null"}
    /\ checkReady = (urlDemo # "null")
    /\ InitGhost

\* The sketch's globals for the progression playback.
InitSession ==
    /\ isProgressionPlaying = FALSE
    /\ progressionInterval = 0

\* setup() when the URL has no demo parameter: checkURLDemo sets no interval.
Init ==
    /\ InitEngine
    /\ currentlyPlayingNotes = {}
    /\ InitDetect
    /\ InitPlayer
    /\ InitSound
    /\ InitSession
    /\ urlDemo = "null"
    /\ checkReady = FALSE
    /\ InitGhost

\* The scale types the cursor specification switches between: two 7-note
\* patterns and a 5-note pattern (SpecScale covers all twelve).
CursorScaleTypes == {"Major", "Minor", "Minor Pent."}

Next ==
    \/ \E root \in NoteNames, type \in CursorScaleTypes : SetScale(root, type)
    \/ \E name \in getProgressionNames \cup IdleNames : SetProgression(name)
    \/ NextProgressionStep
    \/ PrevProgressionStep
    \/ GetCurrentProgressionChord
    \/ GetCurrentProgressionNotes

Spec == Init /\ [][Next]_vars

\* Every setScale(root, type) over the whole catalog.
NextScale == \E root \in NoteNames, type \in ScaleTypes : SetScale(root, type)

SpecScale == Init /\ [][NextScale]_vars

\* The largest degree keyPressed asks for (the key \).
MaxDegreeKey == 13

\* The degrees asked of the scale engine: zero and the negative ones down to
\* minus the longest pattern included.
DegreeArgs == (6 - MaxDegreeKey)..MaxDegreeKey

readCalls == {"noteForDegree", "degreeOf", "relativeKey", "parentMajorOf"}

\* No read has been made of the scale as it is now.
unread == lastCall.op \notin readCalls

\* Every scale of the catalog and the reads of the scale engine. A read
\* changes nothing of the engine, so the reads are followed one at a time from
\* each scale.
NextTheory ==
    \/ \E root \in NoteNames, type \in ScaleTypes : SetScale(root, type)
    \/ unread /\ \E theNum \in DegreeArgs : GetNoteNameFromNumberInCurrentScale(theNum)
    \/ unread /\ \E note \in NoteNames : DegreeOf(note)
    \/ unread /\ GetCurrentRelative
    \/ unread /\ GetParentMajorKey

SpecTheory == Init /\ [][NextTheory]_vars

pitchCalls == {"indexToName", "nameToIndex", "fifthsFrom"}

\* Every root, and the reads of the two 12-entry tables and of the circle of
\* fifths, one read from each scale.
NextPitch ==
    \/ \E root \in NoteNames, type \in ScaleTypes : SetScale(root, type)
    \/ lastCall.op \notin pitchCalls /\ \E theNum \in 0..11 : GetNoteNameFromNum(theNum)
    \/ lastCall.op \notin pitchCalls /\ \E name \in NoteNames : GetNumFromNoteName(name)
    \/ lastCall.op \notin pitchCalls /\ GetFifthsFromCurrentRoot

SpecPitch == Init /\ [][NextPitch]_vars

\* The whole engine at once: the scale, the cursor, the sounding notes and
\* the detector, on two roots, two scale types, one progression and two notes.
NextEngine ==
    \/ \E root \in {"C", "A"}, type \in {"Major", "Dorian"} : SetScale(root, type)
    \/ \E name \in {"ii-V-I", "None"} : SetProgression(name)
    \/ NextProgressionStep
    \/ PrevProgressionStep
    \/ GetCurrentProgressionChord
    \/ GetCurrentProgressionNotes
    \/ GetCurrentRelative
    \/ \E note \in {"C", "F#"} : IsNoteInCurrentScale(note)
    \/ \E n \in {"C", "F#"} : AddPlayingNote(n)
    \/ \E n \in {"C", "F#"} : ReleasePlayingNote(n)
    \/ DetectChords

SpecEngine == Init /\ [][NextEngine]_vars

\* Indexes and names that the two tables do not have.
OutsideIndexes == {-1, 12, 13}
OutsideNames == {"", "H", "Db", "c"}

\* The reads of the two tables with what they have and with what they lack.
NextAnyPitch ==
    \/ \E root \in NoteNames, type \in ScaleTypes : SetScale(root, type)
    \/ \E theNum \in {0, 11} \cup OutsideIndexes : GetNoteNameFromNum(theNum)
    \/ \E name \in {"A", "G#"} \cup OutsideNames : GetNumFromNoteName(name)

SpecAnyPitch == Init /\ [][NextAnyPitch]_vars

\* Scale names a script or a URL may carry that the catalog does not have.
UnknownScaleTypes == {"Harmonic Minor", "major"}

\* setScale with the names of the catalog and with unknown ones.
NextAnyScale ==
    \E root \in NoteNames, type \in ScaleTypes \cup UnknownScaleTypes :
        SetScale(root, type)

SpecAnyScale == Init /\ [][NextAnyScale]_vars

-----------------------------------------------------------------------------
(* Properties of the engine                                                *)

Active == currentProgression # "null"

stepCount == Len(chordProgressions[currentProgression])

\* The notes of pattern `pattern` on root `root`, as a set.
patternNotes(root, pattern) ==
    { numbersToNotes[(notesToNumbers[root] + pattern[i]) % 12] : i \in 1..Len(pattern) }

\* C6: after any sequence of setScale calls the in-scale set is exactly the
\* notes (rootIndex + p) mod 12, p in the pattern of the current type, for the
\* current root and type only; isInScale holds of exactly len(pattern) notes
\* (5, 6 or 7) and the root is in scale.
InScaleSetIsCurrentPattern ==
    LET pat == scaleTypesToPatterns[currentScaleType]
    IN  /\ currentPattern = pat
        /\ currentScaleNotes = patternNotes(currentRoot, pat)
        /\ Cardinality({n \in NoteNames : isNoteInCurrentScale(n)}) = Len(pat)
        /\ Len(pat) \in {5, 6, 7}
        /\ isNoteInCurrentScale(currentRoot)

\* G# Blues set after another scale: six notes in scale.
WitnessBluesAfterMajor ==
    /\ lastCall = [op |-> "setScale", name |-> "Blues"]
    /\ currentRoot = "G#"
    /\ currentScaleNotes = {"G#", "B", "C#", "D", "D#", "F#"}

\* C7: whenever a progression is active, 0 <= stepIndex < number of steps of
\* the active progression.
StepIndexInRange ==
    Active => progressionStep \in 0..(stepCount - 1)

\* 12-bar blues at step 11 switched to ii-V-I.
WitnessLongToShort ==
    /\ currentProgression = "ii-V-I"
    /\ lastCall.op = "setProgression"
    /\ stepBefore = 11
    /\ progressionStep = 0

\* C8: in the Active state next() sets stepIndex to (stepIndex + 1) mod
\* stepCount; after stepCount consecutive calls the index is back at the step
\* the run began at, and not before.
NextCyclesThroughSteps ==
    Active =>
        /\ lastCall.op = "next" => progressionStep = (stepBefore + 1) % stepCount
        /\ runLen = stepCount => progressionStep = runStart
        /\ (0 < runLen /\ runLen < stepCount) => progressionStep # runStart

\* Twelve next() calls on 12-bar blues, begun at step 5.
WitnessBluesLap ==
    /\ currentProgression = "12 Bar Blues"
    /\ lastCall.op = "next"
    /\ runLen = 12
    /\ runStart = 5
    /\ progressionStep = 5

\* C9: next() followed by previous(), and previous() followed by next(), leave
\* stepIndex as it was; previous() at step 0 moves to stepCount - 1; the index
\* is never negative.
PrevInvertsNext ==
    [][ /\ (lastCall.op = "next" /\ lastCall'.op = "previous")
            => progressionStep' = stepBefore
        /\ (lastCall.op = "previous" /\ lastCall'.op = "next")
            => progressionStep' = stepBefore
        /\ (Active /\ lastCall'.op = "previous" /\ progressionStep = 0)
            => progressionStep' = stepCount - 1
        /\ progressionStep' >= 0 ]_vars

\* On 12-bar blues at step 11: next() wraps to 0, previous() wraps back to 11.
WitnessNextThenPrev ==
    /\ currentProgression = "12 Bar Blues"
    /\ callBefore = "next"
    /\ lastCall.op = "previous"
    /\ stepBefore = 0
    /\ progressionStep = 11

\* The chord of step 1 of progression `name` on the current root.
chordOfStepOne(name) ==
    LET first == chordProgressions[name][1]
        r     == numbersToNotes[(notesToNumbers[currentRoot] + first.degree) % 12]
    IN  [root |-> r, quality |-> first.quality, name |-> first.name, step |-> 1,
         total |-> Len(chordProgressions[name]),
         displayName |-> r \o first.quality \o " (" \o first.name \o ")"]

\* C10: setProgression with a null, empty or 'None' name leaves the engine Idle
\* (no progression, step 0) and returns null; with a progression name it leaves
\* the engine Active(name) at step 0 and returns the chord of step 1.
SetProgressionResets ==
    lastCall.op = "setProgression" =>
        IF lastCall.name \in IdleNames
        THEN ~Active /\ progressionStep = 0 /\ ret = NullChord
        ELSE /\ currentProgression = lastCall.name
             /\ progressionStep = 0
             /\ ret = chordOfStepOne(lastCall.name)

\* ii-V-I selected on root C while another progression stood at step 11: Dm.
WitnessSetProgressionFromStep11 ==
    /\ lastCall = [op |-> "setProgression", name |-> "ii-V-I"]
    /\ stepBefore = 11
    /\ currentRoot = "C"
    /\ ret.displayName = "Dm (ii)"

\* The calls that return the current chord.
chordCalls == {"setProgression", "next", "previous", "currentChord"}

\* The last call returned a chord of the active progression.
chordReturned ==
    /\ Active
    /\ lastCall.op \in chordCalls
    /\ "root" \in DOMAIN ret

\* C11: in the Idle state currentChord(), next() and previous() return null,
\* currentChordNotes() returns the empty list, and none of them changes the
\* cursor, the scale state or the sounding notes.
IdleQueriesReturnNothing ==
    [][ (~Active /\ lastCall'.op \in {"currentChord", "next", "previous",
                                       "currentChordNotes"})
          => /\ ret' = IF lastCall'.op = "currentChordNotes"
                       THEN [notes |-> <<>>] ELSE NullChord
             /\ UNCHANGED <<currentProgression, progressionStep, scaleVars,
                            currentlyPlayingNotes>> ]_vars

\* Idle on D Minor: previous(), then currentChordNotes() gives [].
WitnessIdleNotesAfterPrevious ==
    /\ ~Active
    /\ callBefore = "previous"
    /\ lastCall.op = "currentChordNotes"
    /\ ret = [notes |-> <<>>]
    /\ currentRoot = "D"
    /\ currentScaleType = "Minor"

\* The scale degree a step's Roman numeral stands for: the progressions as
\* scale-degree lists are 1-4-5-1, 1-5-6-4, 2-5-1, 1-6-4-5, 6-4-1-5, 1-4-6-5
\* and 1,1,1,1,4,4,1,1,5,4,1,5.
degreeOfNumeral ==
    ("I" :> 1) @@ ("ii" :> 2) @@ ("IV" :> 4) @@ ("V" :> 5) @@ ("vi" :> 6)

\* C12: in the Active state the root of the current chord is the note of the
\* step's scale degree in the current scale, so it follows the root and the
\* scale type of the latest setScale; 1-4-5-1 at C Major gives C, F, G, C.
ChordRootIsScaleDegreeNote ==
    chordReturned =>
        /\ ret.root = getNoteNameFromNumberInCurrentScale(
                          currentRoot, currentPattern, degreeOfNumeral[ret.name])
        /\ (currentProgression = "I-IV-V-I" /\ currentRoot = "C"
                /\ currentScaleType = "Major")
             => ret.root = <<"C", "F", "G", "C">>[ret.step]

\* chordQualityForDegree(d) on pattern `pattern`: the class of the triad of
\* the pattern offsets at indices d-1, (d+1) mod len, (d+3) mod len.
chordQualityForDegree(pattern, d) ==
    LET len   == Len(pattern)
        at(k) == pattern[(k % len) + 1]
        third == (at(d + 1) - at(d - 1) + 12) % 12
        fifth == (at(d + 3) - at(d - 1) + 12) % 12
    IN  IF len < 5 THEN ""
        ELSE IF third = 3 /\ fifth = 6 THEN "dim"
        ELSE IF third = 4 /\ fifth = 8 THEN "aug"
        ELSE IF third = 3 THEN "m"
        ELSE ""

\* C13: the quality of the current chord is the quality of the diatonic triad
\* on the step's degree of the current scale; on C Major degree 2 is "m",
\* degree 7 is "dim" and degrees 1, 4 and 5 are "".
ChordQualityIsModeAware ==
    /\ chordReturned =>
           ret.quality = chordQualityForDegree(currentPattern, degreeOfNumeral[ret.name])
    /\ chordQualityForDegree(scaleTypesToPatterns["Major"], 2) = "m"
    /\ chordQualityForDegree(scaleTypesToPatterns["Major"], 7) = "dim"
    /\ \A d \in {1, 4, 5} : chordQualityForDegree(scaleTypesToPatterns["Major"], d) = ""

\* The triads by quality.
triadOfQuality ==
    ("" :> <<0, 4, 7>>) @@ ("m" :> <<0, 3, 7>>) @@ ("dim" :> <<0, 3, 6>>) @@
    ("aug" :> <<0, 4, 8>>)

-----------------------------------------------------------------------------
(* Properties of the scale engine's reads                                  *)

\* The note (rootIndex + pattern[d-1]) mod 12 of degree d in 1..len.
noteOfDegree(d) ==
    numbersToNotes[(notesToNumbers[currentRoot] + currentPattern[d]) % 12]

\* C15: for a scale of length len and any integer d outside 1..len, zero and
\* negative ones included, noteForDegree(d) is the note of degree
\* ((d-1) mod len) + 1, never an undefined note; on a 5-note scale degree 9
\* is degree 4.
DegreeWrapsIntoScale ==
    lastCall.op = "noteForDegree" =>
        LET len == Len(currentPattern)
            d   == lastCall.arg
        IN  /\ ret.note \in NoteNames
            /\ ret.note = noteOfDegree(((d - 1) % len) + 1)
            /\ (len = 5 /\ d = 9) => ret.note = noteOfDegree(4)

UnknownScaleTypeChangesNothing ==
    [][ (lastCall'.op = "setScale" /\ lastCall'.name \notin ScaleTypes)
          => /\ ret' = Threw
             /\ UNCHANGED <<currentRoot, currentScaleType, currentPattern,
                            currentScaleNotes>> ]_vars

\* C18: relativeKey() is the note 3 semitones below the root for Major,
\* Ionian, Lydian, Mixolydian and Major Pentatonic and 3 semitones above it for
\* every other type; C Major gives A and A Minor gives C.
RelativeKeyByFamily ==
    lastCall.op = "relativeKey" =>
        LET rootIndex == notesToNumbers[currentRoot]
            family    == {"Major", "Ionian", "Lydian", "Mixolydian", "Major Pent."}
        IN  /\ ret.note = IF currentScaleType \in family
                          THEN numbersToNotes[(rootIndex - 3) % 12]
                          ELSE numbersToNotes[(rootIndex + 3) % 12]
            /\ (currentRoot = "C" /\ currentScaleType = "Major") => ret.note = "A"
            /\ (currentRoot = "A" /\ currentScaleType = "Minor") => ret.note = "C"

\* The relative of C Lydian is A.
WitnessRelativeOfCLydian ==
    /\ currentRoot = "C"
    /\ currentScaleType = "Lydian"
    /\ lastCall.op = "relativeKey"
    /\ ret.note = "A"

\* The mode offsets: Ionian 0, Dorian -2, Phrygian -4, Lydian -5,
\* Mixolydian -7, Aeolian -9, Locrian -11.
modeOffset ==
    ("Ionian" :> 0) @@ ("Dorian" :> -2) @@ ("Phrygian" :> -4) @@ ("Lydian" :> -5) @@
    ("Mixolydian" :> -7) @@ ("Aeolian" :> -9) @@ ("Locrian" :> -11)

\* The note at (rootIndex + modeOffset) mod 12 for the current root and mode.
resolvedParent ==
    numbersToNotes[(notesToNumbers[currentRoot] + modeOffset[currentScaleType]) % 12]

\* C19: parentMajorOf is null for a type without a mode relation and when the
\* resolved parent is the root itself (Ionian); for the other modes it is the
\* note at (rootIndex + modeOffset) mod 12.
ParentMajorNullForTonic ==
    lastCall.op = "parentMajorOf" =>
        IF currentScaleType \notin DOMAIN modeOffset THEN ret.note = "null"
        ELSE IF resolvedParent = currentRoot THEN ret.note = "null"
        ELSE ret.note = resolvedParent

\* C19 as the code has it: null for a type without a mode relation; for each
\* of the seven modes the note at (rootIndex + modeOffset) mod 12, a note name
\* for every root, which for Ionian is the root itself.
ParentMajorIsRootForTonic ==
    lastCall.op = "parentMajorOf" =>
        IF currentScaleType \notin DOMAIN modeOffset THEN ret.note = "null"
        ELSE /\ ret.note = resolvedParent
             /\ ret.note \in NoteNames
             /\ (ret.note = currentRoot) = (currentScaleType = "Ionian")

\* A Locrian comes from A# Major: the sum 0 - 11 is negative before "+ 12".
WitnessParentOfALocrian ==
    /\ currentRoot = "A"
    /\ currentScaleType = "Locrian"
    /\ lastCall.op = "parentMajorOf"
    /\ ret.note = "A#"

\* C20: the in-scale set of each of the seven modes is the in-scale set of
\* the Major scale on its parent; Ionian has the pattern of Major and Aeolian
\* the pattern of Minor.
ModesUseParentMajorNotes ==
    /\ currentScaleType \in DOMAIN modeOffset =>
           currentScaleNotes =
               patternNotes(getParentMajorKey(currentRoot, currentScaleType),
                            scaleTypesToPatterns["Major"])
    /\ scaleTypesToPatterns["Ionian"] = scaleTypesToPatterns["Major"]
    /\ scaleTypesToPatterns["Aeolian"] = scaleTypesToPatterns["Minor"]

\* D Dorian has the notes of C Major.
WitnessDDorianIsCMajor ==
    /\ lastCall = [op |-> "setScale", name |-> "Dorian"]
    /\ currentRoot = "D"
    /\ getParentMajorKey(currentRoot, currentScaleType) = "C"
    /\ currentScaleNotes = {"C", "D", "E", "F", "G", "A", "B"}

\* fifths applied k times to note n
RECURSIVE fifthOfTimes(_, _)
fifthOfTimes(n, k) == IF k = 0 THEN n ELSE fifthOfTimes(fifths[n], k - 1)

\* C29: the two tables are a bijection between the 12 names and 0..11, each
\* the inverse of the other.
NameIndexBijection ==
    /\ \A n \in NoteNames : getNoteNameFromNum(getNumFromNoteName(n)) = n
    /\ \A i \in 0..11 : getNumFromNoteName(getNoteNameFromNum(i)) = i
    /\ DOMAIN notesToNumbers = NoteNames
    /\ { notesToNumbers[n] : n \in NoteNames } = 0..11
    /\ lastCall.op = "nameToIndex" =>
           ret.num \in 0..11 /\ getNoteNameFromNum(ret.num) = lastCall.arg
    /\ lastCall.op = "indexToName" =>
           ret.note \in NoteNames /\ getNumFromNoteName(ret.note) = lastCall.arg

\* G# is 11.
WitnessIndexOfGSharp ==
    /\ lastCall.op = "nameToIndex"
    /\ lastCall.arg = "G#"
    /\ ret.num = 11

\* C31: a name that is not one of the 12, and an index outside 0..11, make
\* nameToIndex and indexToName fail; neither returns a value.
OutsideTheTableFails ==
    /\ (lastCall.op = "nameToIndex" /\ lastCall.arg \notin NoteNames) => ret = Threw
    /\ (lastCall.op = "indexToName" /\ lastCall.arg \notin 0..11) => ret = Threw

\* C30: for every root the fifths from it are 12 names that start at the
\* root, each the fifth of the one before and 7 semitones above it mod 12, and
\* each of the 12 notes occurs once; twelve fifths from any note lead back to
\* it.
FifthsAreAPermutation ==
    /\ \A n \in NoteNames : fifthOfTimes(n, 12) = n
    /\ lastCall.op = "fifthsFrom" =>
           LET f == ret.notes IN
           /\ Len(f) = 12
           /\ f[1] = currentRoot
           /\ \A i \in 2..12 :
                  /\ f[i] = fifths[f[i - 1]]
                  /\ notesToNumbers[f[i]] = (notesToNumbers[f[i - 1]] + 7) % 12
           /\ range(f) = NoteNames
           /\ \A i, j \in 1..12 : f[i] = f[j] => i = j

\* The fifths from F# end on B.
WitnessFifthsFromFSharp ==
    /\ lastCall.op = "fifthsFrom"
    /\ currentRoot = "F#"
    /\ ret.notes = <<"F#", "C#", "G#", "D#", "A#", "F", "C", "G", "D", "A", "E", "B">>

\* Notes are turned on and off one at a time; any set of the 12 names sounds.
\* C38: chord construction and chord detection agree: the detector, run on
\* exactly the notes of the current chord, finds the chord's root followed by
\* its quality, with the same notes in the same order.
ConstructedChordIsDetected ==
    (lastCall.op = "currentChordNotes" /\ currentProgression \in getProgressionNames) =>
        LET chord == getCurrentProgressionChord(currentProgression, progressionStep,
                                                currentRoot)
            found == getCurrentlyPlayingChordsFromNotes(range(ret.notes))
        IN  /\ chord.root \o chord.quality \in DOMAIN found
            /\ found[chord.root \o chord.quality] = ret.notes

\* The notes of the vi of I-V-vi-IV in E, C# E G#, have been read: C#m.
WitnessCSharpMinorOfE ==
    /\ lastCall.op = "currentChordNotes"
    /\ currentProgression = "I-V-vi-IV" /\ progressionStep = 2
    /\ currentRoot = "E"
    /\ ret.notes = <<"C#", "E", "G#">>
    /\ "C#m" \in DOMAIN getCurrentlyPlayingChordsFromNotes({"C#", "E", "G#"})

NextDetect ==
    \/ \E n \in NoteNames : AddPlayingNote(n)
    \/ \E n \in NoteNames : ReleasePlayingNote(n)
    \/ DetectChords

SpecDetect == Init /\ [][NextDetect]_vars

-----------------------------------------------------------------------------
(* Properties of the detector                                              *)

\* The notes chord type `type` needs on root `root`, in pattern order.
requiredNotes(root, type) ==
    [i \in 1..Len(chordTypesToNoteLists[type]) |->
        numbersToNotes[(notesToNumbers[root] + chordTypesToNoteLists[type][i]) % 12]]

matches(S) ==
    { <<r, t>> \in S \X DOMAIN chordTypesToNoteLists : range(requiredNotes(r, t)) \subseteq S }

\* C1: detect(S) has a key root+suffix exactly for the pairs (root, type) with
\* root in S and every required note in S; its value is the required notes in
\* pattern order, root first; nothing is dropped. {C,E,G} gives "C" and "Cf"
\* and no chord needing D, F or B; {C,E,G,A#} gives "C7".
DetectFindsExactlyTheSubsetChords ==
    chordsDone =>
        LET S == currentlyPlayingNotes
        IN  /\ DOMAIN chords = { m[1] \o m[2] : m \in matches(S) }
            /\ \A m \in matches(S) :
                   /\ chords[m[1] \o m[2]] = requiredNotes(m[1], m[2])
                   /\ chords[m[1] \o m[2]][1] = m[1]
            /\ S = {"C", "E", "G"} =>
                   /\ chords["C"] = <<"C", "E", "G">>
                   /\ chords["Cf"] = <<"C", "G">>
                   /\ \A k \in DOMAIN chords :
                          range(chords[k]) \cap {"D", "F", "B"} = {}
            /\ S = {"C", "E", "G", "A#"} =>
                   chords["C7"] = <<"C", "E", "G", "A#">>

\* C, E, G and A# sound and the detector has run: C, C7, Cf, and E dim too.
WitnessC7Detected ==
    /\ chordsDone
    /\ currentlyPlayingNotes = {"C", "E", "G", "A#"}
    /\ DOMAIN chords = {"C", "C7", "Cf", "Edim"}

NextPlayer ==
    \/ \E sequence \in PlayerSequences : Play(sequence)
    \/ Stop
    \/ Tick
    \/ \E t \in timers : NoteOffFires(t)
    \/ \E t \in timers : AdvanceFires(t)
    \/ \E l \in loads : SetupLoadCompletes(l, {})
    \/ \E l \in loads : DropdownLoadCompletes(l, {})
    \/ \E l \in loads : PlayerLoadCompletes(l, {})
    \/ \E name \in DropdownChoices : OnInstrumentChange(name)
    \/ \E n \in MouseNotes : MousePressed(n)

SpecPlayer == Init /\ [][NextPlayer]_vars

\* One play() of any of the sequences, in any scale, that nothing interrupts:
\* no stop(), no second play(), no key, mouse or dropdown.
NextSolo ==
    \/ \E root \in NoteNames, type \in ScaleTypes : plays = 0 /\ SetScale(root, type)
    \/ \E sequence \in FormedSequences : plays = 0 /\ Play(sequence)
    \/ Tick
    \/ \E t \in timers : NoteOffFires(t)
    \/ \E t \in timers : AdvanceFires(t)
    \/ \E l \in loads : SetupLoadCompletes(l, {})
    \/ \E l \in loads : PlayerLoadCompletes(l, {})

SpecSolo == Init /\ [][NextSolo]_vars

\* One uninterrupted play() in C or A, Major or Dorian, when time goes on,
\* every due callback runs and every load settles.
NextSoloFair ==
    \/ \E root \in {"C", "A"}, type \in {"Major", "Dorian"} :
           plays = 0 /\ SetScale(root, type)
    \/ \E sequence \in FormedSequences : plays = 0 /\ Play(sequence)
    \/ Tick
    \/ \E t \in timers : NoteOffFires(t)
    \/ \E t \in timers : AdvanceFires(t)
    \/ \E l \in loads : SetupLoadCompletes(l, {})
    \/ \E l \in loads : PlayerLoadCompletes(l, {})

SpecSoloFair ==
    /\ Init /\ [][NextSoloFair]_vars
    /\ WF_vars(Tick)
    /\ WF_vars(\E t \in timers : NoteOffFires(t))
    /\ WF_vars(\E t \in timers : AdvanceFires(t))
    /\ WF_vars(\E l \in loads : SetupLoadCompletes(l, {}))
    /\ WF_vars(\E l \in loads : PlayerLoadCompletes(l, {}))

\* Every way a note gets into the sounding set but the progression: a play()
\* of any sequence, the mouse and the keyboard.
NextTokens ==
    \/ \E type \in {"Major", "Minor Pent."} : plays = 0 /\ SetScale("A", type)
    \/ \E sequence \in DOMAIN Sequences : plays = 0 /\ Play(sequence)
    \/ Tick
    \/ \E t \in timers : NoteOffFires(t)
    \/ \E t \in timers : AdvanceFires(t)
    \/ \E l \in loads : SetupLoadCompletes(l, {})
    \/ \E l \in loads : PlayerLoadCompletes(l, {})
    \/ MousePressed("A")
    \/ KeyPressed(4)
    \/ KeyReleased(4)

SpecTokens == Init /\ [][NextTokens]_vars

NextParse == \E str \in CompactInputs : FromCompact(str)

SpecParse == Init /\ [][NextParse]_vars

\* The keyboard, the instrument dropdown and loads in which files fail.
NextKeys ==
    \/ \E theNum \in PressedKeys : KeyPressed(theNum)
    \/ \E theNum \in PressedKeys : KeyReleased(theNum)
    \/ \E l \in loads, failed \in SUBSET MissingSamples : SetupLoadCompletes(l, failed)
    \/ \E l \in loads, failed \in SUBSET MissingSamples :
           DropdownLoadCompletes(l, failed)
    \/ \E name \in DropdownChoices : OnInstrumentChange(name)

SpecKeys == Init /\ [][NextKeys]_vars

-----------------------------------------------------------------------------
(* SequencePlayer: play() and stop() against the other callbacks           *)

advanceTimers == {t \in timers : t.kind = "adv"}

\* The sequence of the last play() has nothing left to run: no suspended
\* play(), no advance callback pending, and no stop() since.
playedOut ==
    /\ onLog.seq # "null"
    /\ ~onLog.stopped
    /\ tasks = {}
    /\ advanceTimers = {}

\* C2: only one sequence plays at a time. No event is turned on by a
\* continuation or callback created before the latest play() or stop(); the
\* events of the sequence of the latest play() are turned on once each and in
\* order, all of them once that sequence has played out; and at most one
\* advance callback is pending.
OnlyOneSequencePlays ==
    /\ lastStep.on => ~lastStep.stale
    /\ \A i \in DOMAIN onLog.on : onLog.on[i] = i - 1
    /\ playedOut => Len(onLog.on) = Len(Sequences[onLog.seq].events)
    /\ Cardinality(advanceTimers) <= 1

\* C3: stop() removes from the sounding notes exactly the notes the player
\* added: none of the player's notes sounds after it, and a sounding note that
\* only another source added still sounds after it.
StopRemovesExactlyPlayerNotes ==
    [][lastStep'.op = "stop" =>
          /\ \A n \in NoteNames :
                "player" \in owners[n] => n \notin currentlyPlayingNotes'
          /\ \A n \in currentlyPlayingNotes :
                "player" \notin owners[n] => n \in currentlyPlayingNotes']_vars

\* C4: stop() cancels both deferred callbacks: no note-off and no advance that
\* was scheduled before a stop() runs after it.
StopCancelsBothCallbacks ==
    lastStep.op \in {"noteOff", "advance"} => ~lastStep.stale

\* C5: when the sequence being played names a temperament, no load of that
\* temperament is still in progress when one of its events is turned on.
LoadCompletesBeforeNoteOn ==
    (lastStep.on /\ given(Sequences[currentSequence].config, "temperament"))
        => \A l \in loads : l.name # Sequences[currentSequence].config.temperament

-----------------------------------------------------------------------------
(* The sounding-note set under the keyboard, and samples that fail to load *)

keyCalls == {"keyPressed", "keyReleased"}

\* C21: the sounding notes are a set with idempotent insertion and removal.
\* Adding a note that sounds and releasing one that does not change nothing;
\* a note sounds after it is added and does not after one release, however
\* many times it was added; no other note's membership changes.
SoundingNotesAreASet ==
    [][ lastStep'.op \in keyCalls =>
          LET n == lastStep'.note IN
          /\ \A m \in NoteNames \ {n} :
                 (m \in currentlyPlayingNotes') = (m \in currentlyPlayingNotes)
          /\ lastStep'.op = "keyPressed" =>
                 /\ n \in currentlyPlayingNotes'
                 /\ n \in currentlyPlayingNotes =>
                        currentlyPlayingNotes' = currentlyPlayingNotes
          /\ lastStep'.op = "keyReleased" =>
                 /\ n \notin currentlyPlayingNotes'
                 /\ n \notin currentlyPlayingNotes =>
                        currentlyPlayingNotes' = currentlyPlayingNotes ]_vars

\* E was added three times in a row and released once, while G sounds on.
WitnessReleaseAfterRepeats ==
    /\ lastStep.op = "keyReleased"
    /\ lastStep.note = "E"
    /\ lastStep.streak = 3
    /\ currentlyPlayingNotes = {"G"}

\* C28: a load in which files fail still completes (isLoading is cleared and
\* the completion callback runs), and turning on a note whose sample is
\* missing or not loaded is silent, raises nothing and adds the note.
FailedSamplesAreTolerated ==
    [][ /\ lastStep'.op = "loaded" =>
              /\ ~isLoading' /\ isInitialized' /\ ~isLoadingInstrument'
              /\ loads' = {}
        /\ lastStep'.op = "keyPressed" =>
              LET n      == lastStep'.note
                  loaded == sounds.name = dropdownInstrument /\ n \in sounds.loaded
              IN  /\ lastStep'.audio \in {"played", "silent", "none"}
                  /\ (lastStep'.audio = "played") =
                         (loaded /\ n \notin currentlyPlayingNotes)
                  /\ n \in currentlyPlayingNotes' ]_vars

\* The file of C failed to load and the key of C is pressed: silence, and C
\* sounds in the model.
WitnessMissingSampleKey ==
    /\ lastStep.op = "keyPressed"
    /\ lastStep.note = "C"
    /\ lastStep.audio = "silent"
    /\ loads = {}
    /\ sounds.name = dropdownInstrument
    /\ "C" \notin sounds.loaded
    /\ "C" \in currentlyPlayingNotes

-----------------------------------------------------------------------------
(* The compact notation                                                    *)

\* The items of the events section that are not empty.
eventItems(str) ==
    LET parts == split(str, "|")
    IN  IF Len(parts) >= 2
        THEN SelectSeq(split(parts[2], ";"), LAMBDA item : trim(item) # "")
        ELSE <<>>

DocumentedMultipleEventsParse ==
    (lastCall.op = "fromCompact"
        /\ lastCall.arg = "Equal Tempered|C+E+G|1000;E+G+B|1000") =>
        /\ Len(ret.events) = 2
        /\ ret.events[1].notes = <<"C", "E", "G">>
        /\ ret.events[2].notes = <<"E", "G", "B">>
        /\ ret.events[1].duration = 1000
        /\ ret.events[2].duration = 1000

-----------------------------------------------------------------------------
(* One uninterrupted play()                                                *)

\* The i-th item of the configuration part of a compact string, trimmed; ""
\* when the string has no such item.
configItem(str, i) ==
    LET items == split(trim(Head(split(str, "|"))), ",")
    IN  IF i <= Len(items) THEN trim(items[i]) ELSE ""

\* The step is a play(sequence) call or the continuation of one.
startsPlay == plays' # plays
resumesPlay == lastStep'.op = "resumed"

\* The step has run "Apply root and scale" of applyConfig for a sequence.
appliesRootAndScale ==
    \/ startsPlay /\ tasks' = {}
    \/ resumesPlay

\* The sequence whose play() the step starts or resumes.
sequenceOfStep == Sequences[onLog'.seq]

timingItem(str, i) ==
    LET parts == split(str, "|")
        items == IF Len(parts) >= 3 THEN split(trim(parts[3]), ",") ELSE <<>>
    IN  IF i <= Len(items) THEN trim(items[i]) ELSE ""

\* C25: every event that is played lasts the duration given for it, or 1500
\* when none is given, and its notes sound for the sustain given for it, 0
\* included, or for 80% of that duration when none is given. Read on the two
\* callbacks that the step turning the event on schedules.
EffectiveTimingIsGivenOrDefault ==
    [][lastStep'.on =>
        LET text     == compactTexts[onLog'.seq]
            duration == IF timingItem(text, 1) # ""
                        THEN parseInt(timingItem(text, 1)).n ELSE 1500
            sustain  == IF timingItem(text, 2) # ""
                        THEN parseInt(timingItem(text, 2)).n
                        ELSE (duration * 8) \div 10
        IN  \A t \in timers' \ timers :
                t.delay = IF t.kind = "off" THEN sustain ELSE duration]_vars

\* What the three forms make of a note token in the scale of `root` and
\* `pattern`: a letter name is itself, digits are the note of that degree, and
\* s with digits is that many semitones above the root.
noteOfToken(token, root, pattern) ==
    IF isNoteLetter(token) THEN token
    ELSE IF allDigits(token)
    THEN getNoteNameFromNumberInCurrentScale(root, pattern, parseInt(token).n)
    ELSE numbersToNotes[(notesToNumbers[root] + parseInt(Tail(token)).n) % 12]

\* C26: when an event is played, each of its note tokens resolves by the one
\* form it has: a letter name to itself, digits d to the note of degree d in
\* the current scale, s<n> to the note n semitones above the current root; and
\* digits and s<n> always resolve to one of the 12 note names.
TokensResolveByForm ==
    [][lastStep'.op \in {"play", "resumed", "advance"} =>
        /\ ~lastStep'.threw
        /\ lastStep'.on =>
              LET tokens == Sequences[onLog'.seq].events[eventIndex'].notes IN
              /\ Len(lastStep'.notes) = Len(tokens)
              /\ \A i \in DOMAIN tokens :
                    /\ Cardinality({form \in {"letter", "digits", "semitones"} :
                           \/ form = "letter" /\ isNoteLetter(tokens[i])
                           \/ form = "digits" /\ allDigits(tokens[i])
                           \/ form = "semitones" /\ isSemitoneToken(tokens[i])}) = 1
                    /\ lastStep'.notes[i] =
                           noteOfToken(tokens[i], currentRoot', currentPattern')
                    /\ ~isNoteLetter(tokens[i]) => lastStep'.notes[i] \in NoteNames]_vars

\* The sequences of the model that have an event.
withEvents == {name \in DOMAIN Sequences : Len(Sequences[name].events) >= 1}

\* The last play() has run to its end: every event was turned on, the player
\* has terminated, and none of its notes sounds.
ranToTheEnd(name) ==
    /\ Len(onLog.on) = Len(Sequences[name].events)
    /\ ~isPlaying
    /\ currentSequence = "null"
    /\ currentlyPlayingNotes = {}

\* C22: an uninterrupted play() of a sequence with k >= 1 events turns on
\* events 0, 1, ..., k-1 in that order, once each; the step that turns an
\* event on schedules the removal of exactly its notes and the start of the
\* next event; and the play runs to its end: the player terminates after the
\* last event and every note it turned on is removed.
UninterruptedPlayRunsToTheEnd ==
    /\ [](\A i \in DOMAIN onLog.on : onLog.on[i] = i - 1)
    /\ [][lastStep'.on =>
            /\ onLog'.on = Append(onLog.on, Len(onLog.on))
            /\ \E off, adv \in timers' \ timers :
                  /\ timers' \ timers = {off, adv}
                  /\ off.kind = "off" /\ off.notes = lastStep'.notes
                  /\ adv.kind = "adv" /\ adv.id = timeoutId'
            /\ range(lastStep'.notes) \subseteq currentlyPlayingNotes']_vars
    /\ (onLog.seq \in withEvents)
           ~> (onLog.seq \in withEvents /\ ranToTheEnd(onLog.seq))

-----------------------------------------------------------------------------
(* The engine's three pieces of state                                      *)

scaleState == <<currentRoot, currentScaleType, currentPattern, currentScaleNotes>>
cursorState == <<currentProgression, progressionStep>>

\* The step is a call of the engine that returns something.
callMade == lastCall' # lastCall \/ callBefore' # callBefore \/ ret' # ret

cursorCalls == {"setProgression", "next", "previous"}
readOnlyCalls == {"currentChord", "currentChordNotes", "relativeKey", "isInScale"}

\* C39: each piece of the engine's state is changed by its own operations
\* only. setScale leaves the cursor and the sounding notes; setProgression,
\* next and previous leave the scale and the sounding notes; adding and
\* releasing a note leave the scale and the cursor; detection and the reads
\* change none of the three.
OnlyOwnOperationsChangeState ==
    [][/\ (callMade /\ lastCall'.op = "setScale")
            => UNCHANGED <<cursorState, currentlyPlayingNotes>>
       /\ (callMade /\ lastCall'.op \in cursorCalls)
            => UNCHANGED <<scaleState, currentlyPlayingNotes>>
       /\ (callMade /\ lastCall'.op \in readOnlyCalls)
            => UNCHANGED <<scaleState, cursorState, currentlyPlayingNotes>>
       /\ currentlyPlayingNotes' # currentlyPlayingNotes
            => UNCHANGED <<scaleState, cursorState>>
       /\ (chordsDone' /\ ~chordsDone)
            => UNCHANGED <<scaleState, cursorState, currentlyPlayingNotes>>
       /\ scaleState' # scaleState => lastCall'.op = "setScale"
       /\ cursorState' # cursorState => lastCall'.op \in cursorCalls]_vars

\* In A Dorian at step 2 of ii-V-I with F# sounding, isInScale was asked.
WitnessReadInADorian ==
    /\ lastCall.op = "isInScale" /\ ret.inScale
    /\ currentRoot = "A" /\ currentScaleType = "Dorian"
    /\ currentProgression = "ii-V-I" /\ progressionStep = 2
    /\ currentlyPlayingNotes = {"F#"}
    /\ chordsDone

-----------------------------------------------------------------------------
(* The names in the sounding set                                           *)

\* C37: in every state the sounding set holds only names of the 12-entry
\* note table, whoever added the note: also the tokens of a sequence that
\* match [A-G]#? and the tokens that resolveNotes returns as they are.
SoundingNotesAreTableNames == currentlyPlayingNotes \subseteq NoteNames

-----------------------------------------------------------------------------
(* One key held across scale changes                                       *)

\* The key 5 of the chromatic row, the root and scale dropdowns, and a
\* sequence whose config names a root.
NextHeldKey ==
    \/ \E root \in {"C", "A"}, type \in {"Major", "Dorian"} : SetScale(root, type)
    \/ KeyPressed(4)
    \/ KeyReleased(4)
    \/ Play("rootOnly")
    \/ Tick
    \/ \E t \in timers : NoteOffFires(t)
    \/ \E t \in timers : AdvanceFires(t)
    \/ \E l \in loads : SetupLoadCompletes(l, {})

SpecHeldKey == Init /\ [][NextHeldKey]_vars

\* C36: a key release removes the note its key press added. The keyboard
\* of the specification has one key, so after each release of it every
\* pressed key has been released: no note that the keyboard added is left in
\* the sounding set then, whatever scale changes came while the key was held.
KeyReleaseRemovesItsNote ==
    [][lastStep'.op = "keyReleased" =>
          \A n \in NoteNames : "key" \notin owners'[n]]_vars

-----------------------------------------------------------------------------
(* The instrument of the input handlers and the samples loaded             *)

\* C40: whenever no sample load is in progress, the samples that the sound
\* manager holds are those of currentInstrument, the instrument that the
\* keyboard and the mouse play with.
LoadedSamplesAreOfCurrentInstrument ==
    loads = {} => sounds.name = dropdownInstrument

-----------------------------------------------------------------------------
(* The session: progression playback against the other handlers            *)

\* The progression controls, the scale dropdowns, a demo link, reset, and the
\* callbacks of the timers they set.
NextSession ==
    \/ \E name \in {"ii-V-I", "None"} : SelectProgression(name)
    \/ \E speed \in Speeds : PlayButton(speed)
    \/ \E speed \in Speeds : SpeedChange(speed)
    \/ \E t \in timers : ProgressionTick(t)
    \/ OnScaleChange("A", "Major")
    \/ ResetApp
    \/ plays = 0 /\ DemoLinkClick("semitones")
    \/ Tick
    \/ \E t \in timers : NoteOffFires(t)
    \/ \E t \in timers : AdvanceFires(t)
    \/ \E t \in timers : ChordReleaseFires(t)

SpecSession == Init /\ [][NextSession]_vars

progressionTimers == {t \in timers : t.kind = "prog"}

\* The notes of the chord the cursor is at.
currentChordNotes ==
    range(getCurrentProgressionNotes(
              getCurrentProgressionChord(currentProgression, progressionStep,
                                         currentRoot)).notes)

\* C32: the start of the progression playback and every tick of its timer
\* leave exactly the notes of the current chord sounding, whatever sounded
\* before; a start leaves the cursor where it is, and a tick moves it one step
\* on, from the last step to the first.
TickPlaysExactlyTheNextChord ==
    [][lastStep'.op \in {"progressionStart", "progressionTick"} =>
          /\ currentProgression' = currentProgression
          /\ currentProgression # "null"
          /\ currentlyPlayingNotes' = currentChordNotes'
          /\ lastStep'.op = "progressionStart" => progressionStep' = progressionStep
          /\ lastStep'.op = "progressionTick" =>
                progressionStep' = (progressionStep + 1) % stepCount]_vars

\* A tick has come back to the first chord, ii of A Major, while the demo
\* sequence plays.
WitnessTickWrapsToBMinor ==
    /\ lastStep.op = "progressionTick"
    /\ progressionStep = 0
    /\ currentRoot = "A"
    /\ currentlyPlayingNotes = {"B", "D", "F#"}
    /\ isPlaying

\* C35: at most one progression timer exists, one exists exactly when
\* isProgressionPlaying is true, and it is the one whose handle
\* progressionInterval holds; none runs while no progression is selected.
OneTimerExactlyWhilePlaying ==
    /\ Cardinality(progressionTimers) <= 1
    /\ progressionTimers # {} <=> isProgressionPlaying
    /\ \A t \in progressionTimers : t.id = progressionInterval
    /\ progressionTimers = {} => progressionInterval = 0
    /\ currentProgression = "null" => progressionTimers = {}

\* The playback runs at step 3 after a speed change, a demo link having been
\* clicked before.
WitnessPlayingAfterSpeedChange ==
    /\ isProgressionPlaying
    /\ progressionStep = 2
    /\ plays = 1
    /\ \E t \in progressionTimers : t.delay = 1000

\* C33: resetApp() leaves the session as it was at the start: C Major, no
\* progression and step 0, no note sounding, and no playback active, neither
\* the progression's (no timer, isProgressionPlaying false) nor a sequence
\* player's (not playing, no next event scheduled).
ResetReturnsToTheInitialState ==
    [][lastStep'.op = "reset" =>
          /\ currentRoot' = "C" /\ currentScaleType' = "Major"
          /\ currentPattern' = scaleTypesToPatterns["Major"]
          /\ currentProgression' = "null" /\ progressionStep' = 0
          /\ currentlyPlayingNotes' = {}
          /\ ~isProgressionPlaying' /\ progressionInterval' = 0
          /\ \A t \in timers' : t.kind # "prog"
          /\ ~isPlaying'
          /\ \A t \in timers' : t.kind # "adv"]_vars

-----------------------------------------------------------------------------
(* The demo of the URL                                                     *)

\* The page is opened with or without a demo parameter; the loads complete,
\* the dropdown changes the instrument, the poll of checkURLDemo runs, and the
\* sequence it starts plays. Nothing else calls play().
NextDemo ==
    \/ CheckReadyFires
    \/ CheckReadyGivesUp
    \/ \E l \in loads, failed \in SUBSET MissingSamples : SetupLoadCompletes(l, failed)
    \/ \E l \in loads : DropdownLoadCompletes(l, {})
    \/ \E l \in loads : PlayerLoadCompletes(l, {})
    \/ \E name \in DropdownChoices : OnInstrumentChange(name)
    \/ Tick
    \/ \E t \in timers : NoteOffFires(t)
    \/ \E t \in timers : AdvanceFires(t)

SpecDemo == InitWithURL /\ [][NextDemo]_vars

=============================================================================
